---- MODULE Spec2Model ----
(***************************************************************************)
(* Task scheduler of renpy-distributor: Runner.register, Runner.compute,   *)
(* Runner.run, Task.run and Context.check_kind (machinery/model.py).       *)
(*                                                                         *)
(* Task names are the integers of TaskNames; task i is the i-th task that *)
(* was registered, so the insertion order of the dict Runner.all_tasks is  *)
(* the order of the sequence all_tasks.                                    *)
(***************************************************************************)
EXTENDS Integers, Sequences, FiniteSets, TLC

\* ------------------------------------------------------------------ bounds
MaxTasks == 3
MaxEdges == 2
MaxCycleEdges == 3
MaxRunTasks == 2
MaxRunEdges == 1

\* --------------------------------------------------------------- constants
KEYBOARD_INTERRUPT == -3
FAILURE_EXIT == -2
EXCEPTION == -1
FAILURE == 0
SUCCESS == 1
SKIPPED == 2
SUCCESS_EXIT == 3

TaskResult ==
    {KEYBOARD_INTERRUPT, FAILURE_EXIT, EXCEPTION, FAILURE, SUCCESS, SKIPPED, SUCCESS_EXIT}

KNOWN_PLATFORMS == {"linux", "android"}

\* The number of tasks the six task modules define.
PipelineTasks == 42

TaskNames == 1..(IF MaxTasks > PipelineTasks THEN MaxTasks ELSE PipelineTasks)

\* A task kind is the marker "system" or a set of platforms.
SystemKind == [system |-> TRUE, platforms |-> {}]

PlatformKind(ps) == [system |-> FALSE, platforms |-> ps]

TaskKinds == {SystemKind, PlatformKind({"linux"}), PlatformKind(KNOWN_PLATFORMS)}

\* What a task function does when it is called: it returns a TaskResult,
\* returns another object (value 1: a true one, value 0: a false one, None
\* included), or raises Exception, SystemExit(code) or KeyboardInterrupt.
Returns(type, value) == [how |-> "return", type |-> type, value |-> value]

Raises(type, code) == [how |-> "raise", type |-> type, value |-> code]

NotCalled == [how |-> "none", type |-> "none", value |-> 0]

FunctionOutcomes ==
    {Returns("TaskResult", r) : r \in TaskResult}
        \cup {Returns("object", v) : v \in {0, 1}}
        \cup {Raises("Exception", 0), Raises("KeyboardInterrupt", 0)}
        \cup {Raises("SystemExit", c) : c \in {0, 1, -1}}

BooleanOutcomes == {Returns("object", v) : v \in {0, 1}}

VARIABLES
    all_tasks,        \* Runner.all_tasks: <<[kind, requires, dependencies]>>
    build_platforms,  \* Context.build_platforms
    pc,               \* "register", "loop", "returned", "raised"
    error,            \* the exception that left Runner.run, "none" if none
    error_names,      \* the task names the exception message lists
    tasks_queue,      \* the order yielded by Runner.compute
    next_task,        \* position of the for loop of Runner.run in tasks_queue
    result,           \* the local variable result of Runner.run
    log,              \* one entry per Task.run call that returned
    function_outcome, \* what the task function did in the last Task.run call
    final_message,    \* the last interface.info message of Runner.run
    files,            \* FileList._files: the File records in dict order
    files_before,     \* FileList._files when the last FileList call started
    file_call,        \* the last FileList call, its arguments and how it ended
    file_keys,        \* the keys of FileList._files: files[i] is stored under file_keys[i]
    match_call,       \* the last call of match: its arguments and its result
    rules,            \* the (pattern, file lists) pairs declared so far
    file_lists,       \* classify_directory's file_lists: a FileList per name
    visited,          \* the names walk of classify_directory matched
    classify_pc,      \* "declare", "classified" or "raised"
    legacy_build,     \* Context.legacy_build: dump.json is read, not buildinfo.py
    packages,         \* the packages the source of the build declares
    archives,         \* the archives the source of the build declares
    game_patterns,    \* the (pattern, file lists) pairs of the project
    renpy_patterns,   \* the (pattern, file lists) pairs of the engine
    build_info,       \* what BuildInfo.from_module or from_dump made of them
    writer,           \* the Archiver or Packager that is written: its kind and file lists
    write_pc,         \* "none", "ready", "writing", "done" or "raised"
    write_total,      \* the local variable write_length of write in tasks/build.py
    progress,         \* the pairs (i, write_length) that write yielded so far
    output,           \* the file write writes: whether it is open, its header, its entries
    units,            \* the units of work of a thread pool: steps left, how each ends, its state
    future_to_i,      \* the indices of the futures run_in_thread_pool has not taken yet
    pool_call,        \* the call that owns the pool, and its raise_on_exception
    owner_pc,         \* "idle", "waiting", "joining", "returned" or "raised"
    owner_error,      \* the exception that leaves the call, "none" if none
    interrupts,       \* how many KeyboardInterrupts the call of the main thread got
    context,          \* Context: build_info, classifier_file_lists, archivers and packagers
    prepare_pc,       \* "none", "classified", "archived", "prepared" or "... raised"
    loaded            \* the modules Runner.get_tasks_from was called for, in that order

sched_vars == <<all_tasks, build_platforms, pc, error, error_names, tasks_queue,
                next_task, result, log, function_outcome, final_message>>

file_vars == <<files, files_before, file_call, file_keys>>

match_vars == <<match_call>>

classify_vars == <<rules, file_lists, visited, classify_pc>>

build_vars == <<legacy_build, packages, archives, game_patterns, renpy_patterns, build_info>>

write_vars == <<writer, write_pc, write_total, progress, output>>

pool_vars == <<units, future_to_i, pool_call, owner_pc, owner_error, interrupts>>

prepare_vars == <<context, prepare_pc>>

pipeline_vars == <<loaded>>

\* What the scheduler, a FileList, match, classify_directory, the
\* construction of a BuildInfo, the writing of an archive or package, a
\* thread pool, the preparation of a build and the loading of the task
\* modules leave alone.
not_sched_vars == <<file_vars, match_vars, classify_vars, build_vars, write_vars, pool_vars, prepare_vars, pipeline_vars>>

not_file_vars == <<sched_vars, match_vars, classify_vars, build_vars, write_vars, pool_vars, prepare_vars, pipeline_vars>>

not_match_vars == <<sched_vars, file_vars, classify_vars, build_vars, write_vars, pool_vars, prepare_vars, pipeline_vars>>

not_classify_vars == <<sched_vars, file_vars, match_vars, build_vars, write_vars, pool_vars, prepare_vars, pipeline_vars>>

not_build_vars == <<sched_vars, file_vars, match_vars, classify_vars, write_vars, pool_vars, prepare_vars, pipeline_vars>>

not_write_vars == <<sched_vars, file_vars, match_vars, classify_vars, build_vars, pool_vars, prepare_vars, pipeline_vars>>

not_pool_vars == <<sched_vars, file_vars, match_vars, classify_vars, build_vars, write_vars, prepare_vars, pipeline_vars>>

not_prepare_vars == <<sched_vars, file_vars, match_vars, classify_vars, build_vars, write_vars, pool_vars, pipeline_vars>>

not_pipeline_vars == <<sched_vars, file_vars, match_vars, classify_vars, build_vars, write_vars, pool_vars, prepare_vars>>

vars == <<sched_vars, file_vars, match_vars, classify_vars, build_vars, write_vars, pool_vars, prepare_vars, pipeline_vars>>

Range(s) == {s[i] : i \in DOMAIN s}

RemoveAt(s, i) == SubSeq(s, 1, i - 1) \o SubSeq(s, i + 1, Len(s))

InsertAt(s, i, e) == SubSeq(s, 1, i - 1) \o <<e>> \o SubSeq(s, i, Len(s))

\* list.remove(e): removes the first occurrence of e.
Remove(s, e) ==
    IF e \in Range(s)
    THEN RemoveAt(s, CHOOSE i \in DOMAIN s : s[i] = e /\ \A j \in 1..(i - 1) : s[j] # e)
    ELSE s

Max(a, b) == IF a >= b THEN a ELSE b

\* ----------------------------------------------------------- Runner.compute
EmptyGraph ==
    [forward |-> [t \in TaskNames |-> <<>>],
     reverse |-> [t \in TaskNames |-> <<>>],
     unknown_depends |-> {}]

\* AddEdge with the two tasks taken the wrong way round.
AddEdge_Swapped(g, name, dep) ==
    LET f1 == IF name \in Range(g.forward[dep])
              THEN g.forward
              ELSE [g.forward EXCEPT ![dep] = Append(@, name)]
        r1 == IF dep \in Range(g.reverse[name])
              THEN g.reverse
              ELSE [g.reverse EXCEPT ![name] = Append(@, dep)]
    IN [g EXCEPT !.forward = f1, !.reverse = r1]

\* AddEdge dropping the edge of a task to itself.
AddEdge_NoSelfEdge(g, name, dep) ==
    LET f1 == IF dep \in Range(g.forward[name]) \/ dep = name
              THEN g.forward
              ELSE [g.forward EXCEPT ![name] = Append(@, dep)]
        r1 == IF name \in Range(g.reverse[dep]) \/ dep = name
              THEN g.reverse
              ELSE [g.reverse EXCEPT ![dep] = Append(@, name)]
    IN [g EXCEPT !.forward = f1, !.reverse = r1]

\* Records that task name needs task dep: dep is appended to forward[name]
\* and name to reverse[dep], each unless it is already there.
AddEdge(g, name, dep) ==
    LET f1 == IF dep \in Range(g.forward[name])
              THEN g.forward
              ELSE [g.forward EXCEPT ![name] = Append(@, dep)]
        r1 == IF name \in Range(g.reverse[dep])
              THEN g.reverse
              ELSE [g.reverse EXCEPT ![dep] = Append(@, name)]
    IN [g EXCEPT !.forward = f1, !.reverse = r1]

\* One iteration of "for rname in requires" for the task name, n tasks registered.
ProcessRequire(g, n, name, rname) ==
    IF rname \notin 1..n
    THEN [g EXCEPT !.unknown_depends = @ \cup {rname}]
    ELSE AddEdge(g, name, rname)

\* ProcessDependency passing over a name that is not registered.
ProcessDependency_IgnoresUnknown(g, n, name, dname) ==
    IF dname \notin 1..n
    THEN g
    ELSE [forward |-> IF name \in Range(g.forward[dname])
                      THEN g.forward
                      ELSE [g.forward EXCEPT ![dname] = Append(@, name)],
          reverse |-> IF dname \in Range(g.reverse[name])
                      THEN g.reverse
                      ELSE [g.reverse EXCEPT ![name] = Append(@, dname)],
          unknown_depends |-> g.unknown_depends]

\* ProcessDependency reading "dependencies" as it reads "requires".
ProcessDependency_AsRequire(g, n, name, dname) ==
    IF dname \notin 1..n
    THEN [g EXCEPT !.unknown_depends = @ \cup {dname}]
    ELSE [forward |-> IF dname \in Range(g.forward[name])
                      THEN g.forward
                      ELSE [g.forward EXCEPT ![name] = Append(@, dname)],
          reverse |-> IF name \in Range(g.reverse[dname])
                      THEN g.reverse
                      ELSE [g.reverse EXCEPT ![dname] = Append(@, name)],
          unknown_depends |-> g.unknown_depends]

\* One iteration of "for dname in dependencies" for the task name.
ProcessDependency(g, n, name, dname) ==
    IF dname \notin 1..n
    THEN [g EXCEPT !.unknown_depends = @ \cup {dname}]
    ELSE AddEdge(g, dname, name)

RECURSIVE ScanRequires(_, _, _, _)
ScanRequires(g, n, name, requires) ==
    IF requires = <<>>
    THEN g
    ELSE ScanRequires(ProcessRequire(g, n, name, Head(requires)), n, name, Tail(requires))

RECURSIVE ScanDependencies(_, _, _, _)
ScanDependencies(g, n, name, dependencies) ==
    IF dependencies = <<>>
    THEN g
    ELSE ScanDependencies(ProcessDependency(g, n, name, Head(dependencies)),
                          n, name, Tail(dependencies))

\* TaskItems in the reverse of the registration order.
TaskItems_Reversed(tasks) == [i \in 1..Len(tasks) |-> Len(tasks) + 1 - i]

\* The names of the registered tasks in the iteration order of the dict.
TaskItems(tasks) == [i \in 1..Len(tasks) |-> i]

\* The loop "for name, (task, requires, dependencies) in self.all_tasks.items()".
RECURSIVE ScanTasks(_, _, _)
ScanTasks(g, tasks, names) ==
    IF names = <<>>
    THEN g
    ELSE LET name == Head(names)
             g1 == ScanRequires(g, Len(tasks), name, tasks[name].requires)
             g2 == ScanDependencies(g1, Len(tasks), name, tasks[name].dependencies)
         IN IF g2 = g
            THEN ScanTasks(g, tasks, Tail(names))
            ELSE ScanTasks(g2, tasks, Tail(names))

BuildGraph(tasks) == ScanTasks(EmptyGraph, tasks, TaskItems(tasks))

\* A key is in the defaultdict forward (reverse) exactly when its list has
\* been created, and every created list receives an element at once.
ForwardKeys(g) == {t \in TaskNames : g.forward[t] # <<>>}

ReverseKeys(g) == {t \in TaskNames : g.reverse[t] # <<>>}

\* One iteration of "while workset": name has been popped from the workset.
PeelStep(s, name) ==
    LET users == IF name \in s.rkeys THEN Range(s.reverse[name]) ELSE {}
        f1 == [t \in TaskNames |->
                  IF t \in users THEN Remove(s.forward[t], name) ELSE s.forward[t]]
    IN [forward |-> f1,
        reverse |-> s.reverse,
        rkeys |-> s.rkeys \ {name},
        workset |-> (s.workset \ {name}) \cup {t \in users : f1[t] = <<>>}]

\* set.pop() returns an arbitrary element: the set of the key sets that
\* reverse may be left with, over every order of popping.
RECURSIVE Peel(_)
Peel(s) ==
    IF s.workset = {}
    THEN {s.rkeys}
    ELSE UNION {Peel(PeelStep(s, name)) : name \in s.workset}

UseCycles(tasks, g) ==
    Peel([forward |-> g.forward,
          reverse |-> g.reverse,
          rkeys |-> ReverseKeys(g),
          workset |-> {k \in 1..Len(tasks) : k \notin ForwardKeys(g)}])

\* place_task with its memo task_indexes: placed is the insertion order of
\* the dict task_indexes, index its values.
RECURSIVE place_task(_, _, _)
RECURSIVE PlaceDependencies(_, _, _, _)
place_task(st, deps, name) ==
    IF name \in Range(st.placed)
    THEN [st EXCEPT !.rv = st.index[name]]
    ELSE LET st1 == IF deps[name] # <<>>
                    THEN PlaceDependencies(st, deps, deps[name], 0)
                    ELSE [st EXCEPT !.rv = name - 1]
         IN [placed |-> Append(st1.placed, name),
             index |-> [st1.index EXCEPT ![name] = st1.rv],
             rv |-> st1.rv]

PlaceDependencies(st, deps, dnames, index) ==
    IF dnames = <<>>
    THEN [st EXCEPT !.rv = index]
    ELSE LET st1 == place_task(st, deps, Head(dnames))
         IN PlaceDependencies(st1, deps, Tail(dnames), Max(index, st1.rv + 1))

\* The loop "for name, task in all_tasks.items(): place_task(name, task)".
RECURSIVE PlaceAll(_, _, _)
PlaceAll(st, deps, names) ==
    IF names = <<>>
    THEN st
    ELSE IF Head(names) \in Range(st.placed)
    THEN PlaceAll(st, deps, Tail(names))
    ELSE PlaceAll(place_task(st, deps, Head(names)), deps, Tail(names))

\* The order of registration, whatever the graph says.
TasksOrder_AsRegistered(tasks, g) == TaskItems(tasks)

TasksOrder(tasks, g) ==
    PlaceAll([placed |-> <<>>, index |-> [t \in TaskNames |-> -1], rv |-> 0],
             g.forward, TaskItems(tasks)).placed

\* Runner.compute: the exception it raises, or the order it yields.  cycles
\* is the set of the values use_cycle can take.
compute(tasks) ==
    LET g == BuildGraph(tasks)
    IN IF g.unknown_depends # {}
       THEN [error |-> "unknown", names |-> {g.unknown_depends}, order |-> <<>>]
       ELSE LET cycles == UseCycles(tasks, g)
            IN IF cycles # {{}}
               THEN [error |-> "loop", names |-> cycles \ {{}}, order |-> <<>>]
               ELSE [error |-> "none", names |-> {{}}, order |-> TasksOrder(tasks, g)]

\* --------------------------------------------------------------- Task.run
\* check_kind without the intersection test.
check_kind_NeverSkips(kind, platforms) ==
    IF kind.system
    THEN "True"
    ELSE IF platforms = {} THEN "assert" ELSE "True"

\* Context.check_kind: "assert" stands for the AssertionError.
check_kind(kind, platforms) ==
    IF kind.system
    THEN "True"
    ELSE IF platforms = {}
         THEN "assert"
         ELSE IF kind.platforms \cap platforms # {} THEN "True" ELSE "False"

\* CaughtResult without the test of the exit code.
CaughtResult_AnyExitIsSuccess(outcome) ==
    IF outcome.how = "return"
    THEN outcome
    ELSE IF outcome.type = "Exception"
         THEN Returns("TaskResult", EXCEPTION)
         ELSE IF outcome.type = "SystemExit"
              THEN Returns("TaskResult", SUCCESS_EXIT)
              ELSE Returns("TaskResult", KEYBOARD_INTERRUPT)

\* The value of result after the try statement of Task.run.
CaughtResult(outcome) ==
    IF outcome.how = "return"
    THEN outcome
    ELSE IF outcome.type = "Exception"
         THEN Returns("TaskResult", EXCEPTION)
         ELSE IF outcome.type = "SystemExit"
              THEN IF outcome.value = 0
                   THEN Returns("TaskResult", SUCCESS_EXIT)
                   ELSE Returns("TaskResult", FAILURE_EXIT)
              ELSE Returns("TaskResult", KEYBOARD_INTERRUPT)

\* The coercion "if not isinstance(result, TaskResult)".
CoerceResult(value) ==
    IF value.type = "TaskResult"
    THEN value.value
    ELSE IF value.value # 0 THEN SUCCESS ELSE FAILURE

\* Task.run of a task of this kind whose function, if called, does outcome.
Task_run(kind, platforms, outcome) ==
    LET check == check_kind(kind, platforms)
    IN IF check = "assert"
       THEN [raised |-> TRUE, invoked |-> FALSE, reported |-> FALSE, result |-> FAILURE]
       ELSE IF check = "False"
            THEN [raised |-> FALSE, invoked |-> FALSE, reported |-> FALSE, result |-> SKIPPED]
            ELSE [raised |-> FALSE, invoked |-> TRUE,
                  reported |-> (outcome.how = "raise" /\ outcome.type = "Exception"),
                  result |-> CoerceResult(CaughtResult(outcome))]

\* ------------------------------------------------------------- Runner.run
\* LoopResult with "result < 0" for "result <= 0".
LoopResult_FailureContinues(r) ==
    IF r = SUCCESS_EXIT
    THEN [result |-> 0, break |-> TRUE]
    ELSE IF r = KEYBOARD_INTERRUPT
         THEN [result |-> 2, break |-> TRUE]
         ELSE IF r < 0
              THEN [result |-> 1, break |-> TRUE]
              ELSE [result |-> r, break |-> FALSE]

\* The if chain of the loop body: the value given to result, and whether the
\* loop breaks.
LoopResult(r) ==
    IF r = SUCCESS_EXIT
    THEN [result |-> 0, break |-> TRUE]
    ELSE IF r = KEYBOARD_INTERRUPT
         THEN [result |-> 2, break |-> TRUE]
         ELSE IF r <= 0
              THEN [result |-> 1, break |-> TRUE]
              ELSE [result |-> r, break |-> FALSE]

FinalMessage(r) == IF r = 0 THEN "success" ELSE "failure"

EdgeCount(tasks) ==
    LET RECURSIVE Sum(_)
        Sum(i) == IF i = 0 THEN 0
                  ELSE Len(tasks[i].requires) + Len(tasks[i].dependencies) + Sum(i - 1)
    IN Sum(Len(tasks))

\* The last FileList call: its method, its arguments, whether it raised.
Call(op, args, raised) == [op |-> op, args |-> args, raised |-> raised]

\* FileList(): an empty file list no method of which was called yet.
NoFileList ==
    /\ files = <<>>
    /\ files_before = <<>>
    /\ file_call = Call("none", <<>>, FALSE)
    /\ file_keys = <<>>

\* match was not called yet.
NoMatch ==
    match_call = [called |-> FALSE, s |-> <<>>, pattern |-> <<>>, result |-> FALSE]

\* The names of the file lists that are classified into.
FileListNames == {"all", "mac"}

\* No rule is declared and the file lists are as system.py makes them:
\* {fln: FileList() for fln in build_info.file_lists}.
NoClassification ==
    /\ rules = <<>>
    /\ file_lists = [fl \in FileListNames |-> <<>>]
    /\ visited = {}
    /\ classify_pc = "declare"

\* Context.build_info before update_dump ran; a BuildInfo that was constructed
\* holds its fields, one that was not holds the exception of its construction.
NotBuilt ==
    [state |-> "none", error |-> "none", what |-> "none", file_lists |-> {},
     packages |-> <<>>, archives |-> <<>>,
     game_patterns |-> <<>>, renpy_patterns |-> <<>>]

\* Nothing is declared, the build is not a legacy build and no BuildInfo was
\* constructed.
NoBuildInfo ==
    /\ legacy_build = FALSE
    /\ packages = <<>>
    /\ archives = <<>>
    /\ game_patterns = <<>>
    /\ renpy_patterns = <<>>
    /\ build_info = NotBuilt

\* No Archiver or Packager is made yet.
NoWriter ==
    /\ writer = [kind |-> "none", file_list |-> <<>>, second |-> <<>>]
    /\ write_pc = "none"
    /\ write_total = 0
    /\ progress = <<>>
    /\ output = [state |-> "none", header |-> "none", entries |-> <<>>]

\* No thread pool was made yet.
NoPool ==
    /\ units = <<>>
    /\ future_to_i = {}
    /\ pool_call = [kind |-> "none", raise_on_exception |-> TRUE]
    /\ owner_pc = "idle"
    /\ owner_error = "none"
    /\ interrupts = 0

\* No build was prepared yet.
NoPreparation ==
    /\ context = [build_info |-> [packages |-> <<>>, archives |-> <<>>,
                                  mac_identity |-> "None", directory_name |-> <<>>],
                  classifier_file_lists |-> <<>>, archivers |-> <<>>,
                  packagers |-> <<>>]
    /\ prepare_pc = "none"

\* No task module was loaded yet.
NoPipeline == loaded = <<>>

Init ==
    /\ all_tasks = <<>>
    /\ build_platforms \in SUBSET KNOWN_PLATFORMS
    /\ pc = "register"
    /\ error = "none"
    /\ error_names = {}
    /\ tasks_queue = <<>>
    /\ next_task = 1
    /\ result = 0
    /\ log = <<>>
    /\ function_outcome = NotCalled
    /\ final_message = "none"
    /\ NoFileList
    /\ NoMatch
    /\ NoClassification
    /\ NoBuildInfo
    /\ NoWriter
    /\ NoPool
    /\ NoPreparation
    /\ NoPipeline

\* Runner.register of a name that is not registered yet.
Register(name, kind, requires, dependencies) ==
    /\ pc = "register"
    /\ name = Len(all_tasks) + 1
    /\ name \in TaskNames
    /\ all_tasks' = Append(all_tasks,
                           [kind |-> kind, requires |-> requires,
                            dependencies |-> dependencies])
    /\ UNCHANGED <<build_platforms, pc, error, error_names, tasks_queue,
                   next_task, result, log, function_outcome, final_message>>
    /\ UNCHANGED not_sched_vars

\* The registration of the next of ntasks tasks, of a kind of kinds, the
\* lists of all the registered tasks naming at most limit tasks together.
RegisterNext(kinds, ntasks, limit) ==
    /\ Len(all_tasks) < ntasks
    /\ \E kind \in kinds :
         \E r \in 0..(limit - EdgeCount(all_tasks)) :
           \E requires \in [1..r -> 1..ntasks] :
             \E d \in 0..(limit - EdgeCount(all_tasks) - r) :
               \E dependencies \in [1..d -> 1..ntasks] :
                 Register(Len(all_tasks) + 1, kind, requires, dependencies)

\* Runner.run up to the first iteration of its for loop, which runs the
\* generator Runner.compute up to its first yield; with no task to run, the
\* loop is over and Runner.run returns.
RunCompute ==
    /\ pc = "register"
    /\ LET c == compute(all_tasks)
       IN \E names \in c.names :
            /\ error' = c.error
            /\ error_names' = names
            /\ tasks_queue' = c.order
            /\ pc' = IF c.error # "none" THEN "raised"
                     ELSE IF c.order = <<>> THEN "returned" ELSE "loop"
            /\ final_message' = IF c.error = "none" /\ c.order = <<>>
                                THEN FinalMessage(result) ELSE final_message
    /\ UNCHANGED <<all_tasks, build_platforms, next_task, result, log,
                   function_outcome>>
    /\ UNCHANGED not_sched_vars

\* One iteration of the for loop of Runner.run; when the loop breaks or is
\* exhausted, the final message and the return.
RunTask(outcome) ==
    /\ pc = "loop"
    /\ LET name == tasks_queue[next_task]
           r == Task_run(all_tasks[name].kind, build_platforms, outcome)
           l == LoopResult(r.result)
           over == l.break \/ next_task = Len(tasks_queue)
       IN IF r.raised
          THEN /\ pc' = "raised"
               /\ error' = "assert"
               /\ UNCHANGED <<next_task, result, log, function_outcome, final_message>>
          ELSE /\ log' = Append(log, [name |-> name, invoked |-> r.invoked,
                                      reported |-> r.reported, result |-> r.result])
               /\ function_outcome' = IF r.invoked THEN outcome ELSE NotCalled
               /\ result' = l.result
               /\ next_task' = next_task + 1
               /\ pc' = IF over THEN "returned" ELSE "loop"
               /\ final_message' = IF over THEN FinalMessage(l.result) ELSE final_message
               /\ UNCHANGED error
    /\ UNCHANGED <<all_tasks, build_platforms, error_names, tasks_queue>>
    /\ UNCHANGED not_sched_vars

Next ==
    \/ RegisterNext(TaskKinds, MaxRunTasks, MaxRunEdges)
    \/ RunCompute
    \/ \E outcome \in FunctionOutcomes : RunTask(outcome)

Spec == Init /\ [][Next]_vars

\* The same program with every task of kind "system" and boolean task
\* functions, over richer dependency graphs.
InitGraph ==
    /\ Init
    /\ build_platforms = {}

NextGraph ==
    \/ RegisterNext({SystemKind}, MaxTasks, MaxEdges)
    \/ RunCompute
    \/ \E outcome \in BooleanOutcomes : RunTask(outcome)

SpecGraph == InitGraph /\ [][NextGraph]_vars

\* The same again with one more edge, for the tasks that hang on a cycle.
NextCycle ==
    \/ RegisterNext({SystemKind}, MaxTasks, MaxCycleEdges)
    \/ RunCompute
    \/ \E outcome \in BooleanOutcomes : RunTask(outcome)

SpecCycle == InitGraph /\ [][NextCycle]_vars

\* ------------------------------------------------- the dependency relation
\* The pairs <<a, b>> of registered tasks with "a requires b" or
\* "b dependencies a": b has to run before a.
DeclaredEdges(tasks) ==
    {e \in (1..Len(tasks)) \X (1..Len(tasks)) :
        \/ e[2] \in Range(tasks[e[1]].requires)
        \/ e[1] \in Range(tasks[e[2]].dependencies)}

\* The names of the requires and dependencies lists that are not registered.
UnknownNames(tasks) ==
    {x \in TaskNames :
        /\ x \notin 1..Len(tasks)
        /\ \E t \in 1..Len(tasks) :
             x \in Range(tasks[t].requires) \cup Range(tasks[t].dependencies)}

RECURSIVE Closure(_, _)
Closure(E, k) ==
    IF k = 0
    THEN E
    ELSE LET P == Closure(E, k - 1)
         IN P \cup {e \in (1..MaxTasks) \X (1..MaxTasks) :
                      <<e[1], k>> \in P /\ <<k, e[2]>> \in P}

\* <<a, b>> is in Paths(tasks) when a chain of edges makes a need b.
Paths(tasks) == Closure(DeclaredEdges(tasks), MaxTasks)

OnCycle(tasks) == {t \in 1..Len(tasks) : <<t, t>> \in Paths(tasks)}

Position(order, t) == CHOOSE i \in DOMAIN order : order[i] = t

\* C1: when every edge names a registered task and the edges form no cycle,
\* the computed order holds every registered task exactly once and places b
\* before a for every edge "a requires b" or "b dependencies a".
C1_OrderRespectsEdges ==
    (pc # "register" /\ UnknownNames(all_tasks) = {} /\ OnCycle(all_tasks) = {})
        => /\ error \notin {"unknown", "loop"}
           /\ Len(tasks_queue) = Len(all_tasks)
           /\ Range(tasks_queue) = 1..Len(all_tasks)
           /\ \A e \in DeclaredEdges(all_tasks) :
                Position(tasks_queue, e[2]) < Position(tasks_queue, e[1])

C1_Witness ==
    /\ pc = "loop"
    /\ Len(all_tasks) = 3
    /\ \E a, b \in 1..3 : a < b /\ b \in Range(all_tasks[a].requires)
    /\ \E a, b \in 1..3 : a < b /\ b \in Range(all_tasks[a].dependencies)

\* C2: the tasks whose Task.run has returned are the first tasks of the
\* computed order, once each and in that order; only the last of them can
\* have a result other than SUCCESS or SKIPPED, and then the run has
\* stopped; a run that ends with SUCCESS and SKIPPED results only has gone
\* through the whole order.
C2_StopsAtFirstFailure ==
    /\ Len(log) <= Len(tasks_queue)
    /\ \A i \in DOMAIN log : log[i].name = tasks_queue[i]
    /\ \A i \in DOMAIN log : i < Len(log) => log[i].result \in {SUCCESS, SKIPPED}
    /\ (log # <<>> /\ log[Len(log)].result \notin {SUCCESS, SKIPPED})
          => pc = "returned"
    /\ (pc = "returned"
            /\ \A i \in DOMAIN log : log[i].result \in {SUCCESS, SKIPPED})
          => Len(log) = Len(tasks_queue)

C2_Witness ==
    /\ pc = "returned"
    /\ tasks_queue = <<2, 1>>
    /\ Len(log) = 1
    /\ log[1].invoked
    /\ log[1].result = FAILURE

\* C3: the value returned by Runner.run is 0 exactly when the run was halted
\* by SUCCESS_EXIT or every task ended with SUCCESS or SKIPPED, 2 exactly
\* when a task ended with KEYBOARD_INTERRUPT, 1 exactly when a task ended
\* with FAILURE, EXCEPTION or FAILURE_EXIT, and the final message says
\* success exactly when the value is 0.
C3_ExitCode ==
    pc = "returned"
        => /\ result = 0
                <=> \/ \E i \in DOMAIN log : log[i].result = SUCCESS_EXIT
                    \/ \A i \in DOMAIN log : log[i].result \in {SUCCESS, SKIPPED}
           /\ result = 2 <=> \E i \in DOMAIN log : log[i].result = KEYBOARD_INTERRUPT
           /\ result = 1
                <=> \E i \in DOMAIN log : log[i].result \in {FAILURE, EXCEPTION, FAILURE_EXIT}
           /\ final_message = "success" <=> result = 0

\* C4 as stated: compute raises the dependency-loop error exactly when the
\* edges between registered tasks contain a cycle, and no task function has
\* been invoked when it raises.
C4_LoopErrorIffCycle ==
    pc # "register"
        => /\ error = "loop" <=> OnCycle(all_tasks) # {}
           /\ error = "loop" => (log = <<>> /\ function_outcome = NotCalled)

\* C4 as amended: compute raises the dependency-loop error exactly when every
\* name of the requires and dependencies lists is registered and the edges
\* contain a cycle, and no task function has been invoked when it raises.
C4_LoopErrorIffCycleAndKnown ==
    pc # "register"
        => /\ error = "loop"
                <=> (UnknownNames(all_tasks) = {} /\ OnCycle(all_tasks) # {})
           /\ error = "loop"
                => (pc = "raised" /\ log = <<>> /\ function_outcome = NotCalled)

C4_Witness ==
    /\ pc = "raised"
    /\ error = "loop"
    /\ \A t \in 1..Len(all_tasks) : <<t, t>> \notin DeclaredEdges(all_tasks)

\* C5: the names listed by the dependency-loop error are exactly the tasks
\* that lie on a dependency cycle.
C5_ListedAreOnCycle ==
    error = "loop" => error_names = OnCycle(all_tasks)

\* C6: when a requires or dependencies list names a task that is not
\* registered, Runner.run ends with the error of compute and no task function
\* has been invoked, whatever the kinds of the tasks are.
C6_UnknownNameRaises ==
    (pc # "register" /\ UnknownNames(all_tasks) # {})
        => /\ pc = "raised"
           /\ error = "unknown"
           /\ error_names = UnknownNames(all_tasks)
           /\ log = <<>>
           /\ function_outcome = NotCalled

C6_Witness ==
    /\ pc = "raised"
    /\ error = "unknown"
    /\ build_platforms # {}
    /\ \E t \in 1..Len(all_tasks) :
         /\ Range(all_tasks[t].dependencies) \cap UnknownNames(all_tasks) # {}
         /\ check_kind(all_tasks[t].kind, build_platforms) = "False"

\* The pairs <<x, y>> of registered tasks, x registered before y, with no
\* dependency path between them in either direction.
Ties(tasks) ==
    {e \in (1..Len(tasks)) \X (1..Len(tasks)) :
        /\ e[1] < e[2]
        /\ <<e[1], e[2]>> \notin Paths(tasks)
        /\ <<e[2], e[1]>> \notin Paths(tasks)}

\* C7 as stated: of two tasks with no dependency path between them, the one
\* registered earlier is placed earlier.
C7_TiesByRegistration ==
    (pc # "register" /\ error = "none")
        => \A e \in Ties(all_tasks) :
             Position(tasks_queue, e[1]) < Position(tasks_queue, e[2])

\* C7 as amended: of two tasks with no dependency path between them, the one
\* registered earlier is placed earlier unless the later one is needed,
\* directly or through a chain of edges, by a task registered before the
\* earlier one.
C7_TiesByRegistrationUnlessNeeded ==
    (pc # "register" /\ error = "none")
        => \A e \in Ties(all_tasks) :
             (\A z \in 1..(e[1] - 1) : <<z, e[2]>> \notin Paths(all_tasks))
                => Position(tasks_queue, e[1]) < Position(tasks_queue, e[2])

C7_Witness ==
    /\ pc = "loop"
    /\ Len(all_tasks) = 3
    /\ DeclaredEdges(all_tasks) = {<<3, 1>>}
    /\ tasks_queue = <<1, 2, 3>>

\* The task tables obtained by writing one edge the other way: "a requires
\* b" dropped from the requires of a and a put anywhere in the dependencies
\* of b, or "b dependencies a" dropped from the dependencies of b and b put
\* anywhere in the requires of a.
Reexpressions(tasks) ==
    LET n == Len(tasks)
        FromRequires ==
            {[tasks EXCEPT ![m[1]].requires = RemoveAt(@, m[2]),
                           ![tasks[m[1]].requires[m[2]]].dependencies = InsertAt(@, m[3], m[1])] :
                m \in {x \in (1..n) \X (1..MaxEdges + 1) \X (1..MaxEdges + 2) :
                         /\ x[2] \in DOMAIN tasks[x[1]].requires
                         /\ tasks[x[1]].requires[x[2]] \in (1..n) \ {x[1]}
                         /\ x[3] <= Len(tasks[tasks[x[1]].requires[x[2]]].dependencies) + 1}}
        FromDependencies ==
            {[tasks EXCEPT ![m[1]].dependencies = RemoveAt(@, m[2]),
                           ![tasks[m[1]].dependencies[m[2]]].requires = InsertAt(@, m[3], m[1])] :
                m \in {x \in (1..n) \X (1..MaxEdges + 1) \X (1..MaxEdges + 2) :
                         /\ x[2] \in DOMAIN tasks[x[1]].dependencies
                         /\ tasks[x[1]].dependencies[x[2]] \in (1..n) \ {x[1]}
                         /\ x[3] <= Len(tasks[tasks[x[1]].dependencies[x[2]]].requires) + 1}}
    IN FromRequires \cup FromDependencies

\* C8 as stated: writing an edge the other way yields the same computed
\* order.
C8_SameOrder ==
    (pc # "register" /\ error = "none")
        => \A alt \in Reexpressions(all_tasks) :
             LET c == compute(alt)
             IN c.error = "none" /\ c.order = tasks_queue

\* C8 as amended: writing an edge the other way yields the same outcome of
\* compute up to the order of tasks that no edge orders: the same error with
\* the same names, or an order of the same tasks that places b before a for
\* every edge of the original table.
C8_SameConstraints ==
    pc # "register" /\ error # "assert"
        => \A alt \in Reexpressions(all_tasks) :
             LET c == compute(alt)
             IN /\ c.error = error
                /\ error # "none" => error_names \in c.names
                /\ error = "none"
                     => /\ Range(c.order) = Range(tasks_queue)
                        /\ Len(c.order) = Len(tasks_queue)
                        /\ \A e \in DeclaredEdges(all_tasks) :
                             Position(c.order, e[2]) < Position(c.order, e[1])

C8_Witness ==
    /\ pc = "loop"
    /\ Len(all_tasks) = 3
    /\ \E alt \in Reexpressions(all_tasks) : compute(alt).order # tasks_queue

Disjoint(kind) == ~kind.system /\ kind.platforms \cap build_platforms = {}

\* C9 as stated: for every active platform set, Task.run of a task whose
\* platform set has no platform in common with it returns SKIPPED without
\* invoking the function and without raising, and the function of a task
\* whose set intersects it, or of kind "system", is invoked.
C9_SkippedWhenDisjoint ==
    /\ error # "assert"
    /\ \A i \in DOMAIN log :
         /\ Disjoint(all_tasks[log[i].name].kind)
              => (~log[i].invoked /\ log[i].result = SKIPPED)
         /\ ~Disjoint(all_tasks[log[i].name].kind) => log[i].invoked

\* C9 as amended: the same for every non-empty active platform set.
C9_SkippedWhenDisjointNonEmpty ==
    build_platforms # {}
        => /\ error # "assert"
           /\ \A i \in DOMAIN log :
                /\ Disjoint(all_tasks[log[i].name].kind)
                     => (~log[i].invoked /\ log[i].result = SKIPPED)
                /\ ~Disjoint(all_tasks[log[i].name].kind) => log[i].invoked

C9_Witness ==
    /\ build_platforms = {"android"}
    /\ Len(log) = 2
    /\ \E i \in DOMAIN log : ~log[i].invoked /\ log[i].result = SKIPPED
    /\ \E i \in DOMAIN log : log[i].invoked /\ ~all_tasks[log[i].name].kind.system

\* The result the claim gives for what the task function did.
ClaimedResult(o) ==
    CASE o.how = "raise" /\ o.type = "Exception" -> EXCEPTION
      [] o.how = "raise" /\ o.type = "SystemExit" /\ o.value = 0 -> SUCCESS_EXIT
      [] o.how = "raise" /\ o.type = "SystemExit" /\ o.value # 0 -> FAILURE_EXIT
      [] o.how = "raise" /\ o.type = "KeyboardInterrupt" -> KEYBOARD_INTERRUPT
      [] o.how = "return" /\ o.type = "object" /\ o.value # 0 -> SUCCESS
      [] o.how = "return" /\ o.type = "object" /\ o.value = 0 -> FAILURE
      [] o.how = "return" /\ o.type = "TaskResult" -> o.value

LastCallAsClaimed ==
    log # <<>>
        => LET last == log[Len(log)]
           IN /\ last.result \in TaskResult
              /\ last.invoked
                   => /\ function_outcome \in FunctionOutcomes
                      /\ last.result = ClaimedResult(function_outcome)
                      /\ last.reported <=> function_outcome = Raises("Exception", 0)
              /\ ~last.invoked => function_outcome = NotCalled

None == "None"

\* The characters of the model in the order of their code points.
CodePoints ==
    <<"*", "-", ".", "/", "A", "B", "[", "\\", "]", "a", "b", "e", "g", "m", "p", "r">>

ord(c) == CHOOSE i \in DOMAIN CodePoints : CodePoints[i] = c

\* s < t for two str.
StrLess(s, t) ==
    \E i \in 1..(Len(s) + 1) :
        /\ i <= Len(t)
        /\ SubSeq(s, 1, i - 1) = SubSeq(t, 1, i - 1)
        /\ (i = Len(s) + 1 \/ ord(s[i]) < ord(t[i]))

startswith(s, prefix) ==
    /\ Len(prefix) <= Len(s)
    /\ SubSeq(s, 1, Len(prefix)) = prefix

\* The positions of sep in s.
Positions(s, sep) == {i \in DOMAIN s : s[i] = sep}

RECURSIVE split(_, _)
split(s, sep) ==
    IF Positions(s, sep) = {} THEN <<s>>
    ELSE LET i == CHOOSE i \in Positions(s, sep) :
                      \A j \in Positions(s, sep) : i <= j
         IN <<SubSeq(s, 1, i - 1)>> \o split(SubSeq(s, i + 1, Len(s)), sep)

\* s.rpartition("/")[0]
rpartition(s) ==
    IF Positions(s, "/") = {} THEN <<>>
    ELSE LET i == CHOOSE i \in Positions(s, "/") :
                      \A j \in Positions(s, "/") : j <= i
         IN SubSeq(s, 1, i - 1)

Reverse(s) == [i \in 1..Len(s) |-> s[Len(s) + 1 - i]]

\* TRUE when no assertion of _check_file_name fails.
check_file_name(name) ==
    /\ name # <<>>
    /\ Positions(name, "\\") = {}
    /\ name[1] # "/"
    /\ name[Len(name)] # "/"
    /\ \A i \in Positions(name, "/") : i + 1 \notin Positions(name, "/")
    /\ {<<".">>, <<".", ".">>} \cap Range(split(name, "/")) = {}

File(name, path, directory, executable) ==
    [name |-> name, path |-> path, directory |-> directory,
     executable |-> executable]

\* What a call that may raise gives: whether it raised, and the files.
Outcome(raised, fs) == [raised |-> raised, files |-> fs]

\* The position of the key in the dict, 0 if it is not a key.
IndexOf(fs, key) ==
    IF \E i \in DOMAIN fs : fs[i].name = key
    THEN CHOOSE i \in DOMAIN fs : fs[i].name = key
    ELSE 0

\* d[f.name] = f for a dict d: a new key goes last, a known key keeps its
\* place.
DictSet(d, f) ==
    IF IndexOf(d, f.name) = 0 THEN Append(d, f)
    ELSE [d EXCEPT ![IndexOf(d, f.name)] = f]

\* {f.name: f for f in fs}
RECURSIVE DictOf(_)
DictOf(fs) ==
    IF fs = <<>> THEN <<>>
    ELSE DictSet(DictOf(SubSeq(fs, 1, Len(fs) - 1)), fs[Len(fs)])

\* _merge_files where the directory added last wins.
merge_files_LastWins(first, second) ==
    IF first.directory /\ second.directory
    THEN [raised |-> FALSE, which |-> "second"]
    ELSE [raised |-> first # second, which |-> "first"]

\* _merge_files without its assertion.
merge_files_NoAssert(first, second) ==
    IF first.directory /\ second.directory
    THEN [raised |-> FALSE,
          which |-> IF first.path # None THEN "first" ELSE "second"]
    ELSE [raised |-> FALSE, which |-> "second"]

\* _merge_files: whether the assertion fails and, if it does not, which of
\* the two objects is returned.
merge_files(first, second) ==
    IF first.directory /\ second.directory
    THEN [raised |-> FALSE,
          which |-> IF first.path # None THEN "first" ELSE "second"]
    ELSE [raised |-> first # second, which |-> "first"]

\* FileList.__setitem__
setitem(fs, key, value) ==
    IF ~check_file_name(key) THEN Outcome(TRUE, fs)
    ELSE LET i == IndexOf(fs, key)
         IN IF i = 0 THEN Outcome(FALSE, Append(fs, value))
            ELSE LET m == merge_files(fs[i], value)
                 IN IF m.raised THEN Outcome(TRUE, fs)
                    ELSE IF m.which = "first" THEN Outcome(FALSE, fs)
                    ELSE Outcome(FALSE, [fs EXCEPT ![i] = value])

\* FileList.add
add(fs, value) == setitem(fs, value.name, value)

\* FileList.__init__ after self._files = {}: the loop that adds the files.
RECURSIVE AddAll(_, _)
AddAll(fs, values) ==
    IF values = <<>> THEN Outcome(FALSE, fs)
    ELSE LET r == add(fs, Head(values))
         IN IF r.raised THEN r ELSE AddAll(r.files, Tail(values))

FileList(values) == AddAll(<<>>, values)

\* The files of the lists in the order in which FileList.merge meets them.
RECURSIVE Chain(_)
Chain(lists) ==
    IF lists = <<>> THEN <<>> ELSE Head(lists) \o Chain(Tail(lists))

\* The two loops of FileList.merge over the files that are left.
RECURSIVE MergeScan(_, _, _)
MergeScan(rv, seen, fs) ==
    IF fs = <<>> THEN Outcome(FALSE, rv)
    ELSE LET f == Head(fs)
             i == IndexOf(seen, f.name)
         IN IF i = 0
            THEN MergeScan(Append(rv, f), DictSet(seen, f), Tail(fs))
            ELSE LET m == merge_files(seen[i], f)
                 IN IF m.raised THEN Outcome(TRUE, rv)
                    ELSE IF m.which = "first"
                    THEN MergeScan(rv, seen, Tail(fs))
                    ELSE MergeScan(Append(rv, f), DictSet(seen, f), Tail(fs))

\* FileList.merge
merge(lists) ==
    LET r == MergeScan(<<>>, <<>>, Chain(lists))
    IN IF r.raised THEN r ELSE FileList(r.files)

\* sorted(fs): File.__lt__ compares the names, and the sort is stable.
RECURSIVE sorted(_)
sorted(fs) ==
    IF fs = <<>> THEN <<>>
    ELSE LET front == sorted(SubSeq(fs, 1, Len(fs) - 1))
             f == fs[Len(fs)]
             greater == {i \in DOMAIN front : StrLess(f.name, front[i].name)}
             at == IF greater = {} THEN Len(front) + 1
                   ELSE CHOOSE i \in greater : \A j \in greater : i <= j
         IN InsertAt(front, at, f)

\* sorted(fs, reverse=True)
sorted_reverse(fs) == Reverse(sorted(Reverse(fs)))

\* The loop of FileList.filter_empty over the files that are left.
RECURSIVE FilterScan(_, _, _)
FilterScan(rv, needed_dirs, fs) ==
    IF fs = <<>> THEN rv
    ELSE LET f == Head(fs)
         IN IF ~f.directory \/ f.name \in needed_dirs
            THEN FilterScan(Append(rv, f),
                            needed_dirs \cup {rpartition(f.name)}, Tail(fs))
            ELSE FilterScan(rv, needed_dirs, Tail(fs))

\* FileList.filter_empty that keeps every directory.
filter_empty_KeepsDirectories(fs) == DictOf(sorted(fs))

\* FileList.filter_empty
filter_empty(fs) == DictOf(Reverse(FilterScan(<<>>, {}, sorted_reverse(fs))))

\* The names the while loop of add_missing_directories adds to required.
Ancestors(name) == {SubSeq(name, 1, i - 1) : i \in Positions(name, "/")}

\* The elements of a set in one of the orders in which a set is iterated.
RECURSIVE SeqOf(_)
SeqOf(S) ==
    IF S = {} THEN <<>>
    ELSE LET e == CHOOSE e \in S : TRUE IN <<e>> \o SeqOf(S \ {e})

\* FileList.add_missing_directories without the final sort.
add_missing_directories_Unsorted(fs) ==
    LET seen == {fs[i].name : i \in DOMAIN fs}
        required == UNION {Ancestors(n) : n \in seen}
    IN DictOf(fs \o SeqOf({File(n, None, TRUE, FALSE) : n \in required \ seen}))

\* FileList.add_missing_directories
add_missing_directories(fs) ==
    LET seen == {fs[i].name : i \in DOMAIN fs}
        required == UNION {Ancestors(n) : n \in seen}
        rv == fs \o SeqOf({File(n, None, TRUE, FALSE) : n \in required \ seen})
    IN DictOf(sorted(rv))

\* Packager.finish_file_list
finish_file_list(fs) == add_missing_directories(filter_empty(fs))

\* The loop of FileList.reprefix over the files that are left: rv, and the
\* files the loop is done with as the loop left them.
RECURSIVE ReprefixScan(_, _, _, _, _)
ReprefixScan(rv, done, fs, old, new) ==
    IF fs = <<>> THEN Outcome(FALSE, DictOf(rv))
    ELSE LET f == Head(fs)
             name == new \o SubSeq(f.name, Len(old) + 1, Len(f.name))
         IN IF ~startswith(f.name, old)
            THEN ReprefixScan(Append(rv, f), Append(done, f), Tail(fs), old, new)
            ELSE IF name = <<>>
            THEN ReprefixScan(rv, Append(done, f), Tail(fs), old, new)
            ELSE IF ~check_file_name(name)
            THEN Outcome(TRUE, done \o fs)
            ELSE LET g == [f EXCEPT !.name = name]
                 IN ReprefixScan(Append(rv, g), Append(done, g), Tail(fs),
                                 old, new)

\* FileList.reprefix that keeps the old prefix behind the new one.
reprefix_KeepsOld(fs, old, new) == ReprefixScan(<<>>, <<>>, fs, <<>>, new)

\* FileList.reprefix
reprefix(fs, old, new) == ReprefixScan(<<>>, <<>>, fs, old, new)

\* ------------------------------------------------- the calls on a FileList
\* The number of names a file list is built with.
MaxFiles == 2

\* The names the files are added under: "a", "a/b", "a/b/a", "b/b".
FileNames ==
    {<<"a">>, <<"a", "/", "b">>, <<"a", "/", "b", "/", "a">>,
     <<"b", "/", "b">>}

FilePaths == {None, "path"}

\* The File objects that are added: directories, and files with or without
\* the xbit.
Files ==
    {f \in [name : FileNames, path : FilePaths, directory : BOOLEAN,
            executable : BOOLEAN] :
        f.executable => ~f.directory /\ f.path # None}

\* The prefixes files are moved between: "a", "a/", "b/".
Prefixes == {<<"a">>, <<"a", "/">>, <<"b", "/">>}

\* A file list is built by add and merge, then its files are moved by
\* reprefix, then its directories are put right; a call that raised ends the
\* task that made it.
BuildingCalls ==
    {"none", "add", "merge", "discard", "sort", "filter_none", "split_by_prefix"}

Building == file_call.op \in BuildingCalls /\ ~file_call.raised

Moving ==
    /\ file_call.op \in BuildingCalls \cup {"reprefix", "prepend_directory"}
    /\ ~file_call.raised

Names(fs) == {fs[i].name : i \in DOMAIN fs}

\* The keys of {f.name: f for f in fs} when no two of the files share a name.
KeysOf(fs) == [i \in DOMAIN fs |-> fs[i].name]

Fits(values) ==
    Cardinality(Names(files) \cup Names(values)) <= MaxFiles

\* file_list.add(value)
Add(value) ==
    /\ Building
    /\ Fits(<<value>>)
    /\ LET r == add(files, value)
       IN /\ files' = r.files
          /\ file_call' = Call("add", <<value>>, r.raised)
    /\ files_before' = files
    /\ file_keys' = KeysOf(files')
    /\ UNCHANGED not_file_vars

\* file_list = FileList.merge(file_list, other); the name stays bound to the
\* old list when merge raises.
Merge(other) ==
    /\ Building
    /\ Fits(other)
    /\ LET r == merge(<<files, other>>)
       IN /\ files' = IF r.raised THEN files ELSE r.files
          /\ file_call' = Call("merge", <<other>>, r.raised)
    /\ files_before' = files
    /\ file_keys' = KeysOf(files')
    /\ UNCHANGED not_file_vars

\* file_list.filter_empty()
FilterEmpty ==
    /\ ~file_call.raised
    /\ files' = filter_empty(files)
    /\ files_before' = files
    /\ file_keys' = KeysOf(files')
    /\ file_call' = Call("filter_empty", <<>>, FALSE)
    /\ UNCHANGED not_file_vars

\* file_list.add_missing_directories()
AddMissingDirectories ==
    /\ ~file_call.raised
    /\ files' = add_missing_directories(files)
    /\ files_before' = files
    /\ file_keys' = KeysOf(files')
    /\ file_call' = Call("add_missing_directories", <<>>, FALSE)
    /\ UNCHANGED not_file_vars

\* packager.finish_file_list()
FinishFileList ==
    /\ ~file_call.raised
    /\ files' = finish_file_list(files)
    /\ files_before' = files
    /\ file_keys' = KeysOf(files')
    /\ file_call' = Call("finish_file_list", <<>>, FALSE)
    /\ UNCHANGED not_file_vars

\* file_list.reprefix(old, new); when it raises the files it renamed keep
\* their new names under their old keys.
Reprefix(old, new) ==
    /\ Moving
    /\ LET r == reprefix(files, old, new)
       IN /\ files' = r.files
          /\ file_call' = Call("reprefix", <<old, new>>, r.raised)
          /\ file_keys' = IF r.raised THEN file_keys ELSE KeysOf(r.files)
    /\ files_before' = files
    /\ UNCHANGED not_file_vars

NextFiles ==
    \/ \E value \in Files : Add(value)
    \/ \E value \in Files : Merge(<<value>>)
    \/ FilterEmpty
    \/ AddMissingDirectories
    \/ FinishFileList
    \/ \E old \in Prefixes : \E new \in Prefixes \ {old} : Reprefix(old, new)

SpecFiles == InitGraph /\ [][NextFiles]_vars

\* ----------------------------------------------------- claims on FileList
\* TRUE when the last call added a File to the file list.
Adding == file_call.op \in {"add", "merge"}

\* The File the last call added.
Added == IF file_call.op = "add" THEN file_call.args[1] ELSE file_call.args[1][1]

\* The entry the file list held under the name of the added File, when the
\* call started.
Held == files_before[IndexOf(files_before, Added.name)]

\* TRUE when the last call added a directory under the name of a directory.
DirectoryOnDirectory ==
    /\ Adding
    /\ IndexOf(files_before, Added.name) # 0
    /\ Added.directory
    /\ Held.directory

\* TRUE when the last call added a File under a name that held another
\* entry, the two not both directories.
Conflict ==
    /\ Adding
    /\ IndexOf(files_before, Added.name) # 0
    /\ ~(Added.directory /\ Held.directory)
    /\ Added # Held

C12_ConflictRaises ==
    Conflict => file_call.raised /\ files = files_before

\* A file was added under the name of the first of two entries, a file that
\* differs from it in the xbit only, and the call raised.
C12_Witness ==
    /\ Conflict
    /\ file_call.raised
    /\ Len(files) = 2
    /\ Added.name = files[1].name
    /\ Added.path = Held.path
    /\ Added.directory = Held.directory
    /\ Added.executable # Held.executable

\* C13: after filter_empty() and add_missing_directories() were applied, a
\* second application of the two leaves the list as it is: same entries,
\* same order.
C13_FinishTwice ==
    file_call.op = "finish_file_list" =>
        finish_file_list(files) = files

\* finish_file_list dropped a directory that had a path and added
\* directories that were missing.
C13_Witness ==
    /\ file_call.op = "finish_file_list"
    /\ \E f \in Range(files_before) :
           f.directory /\ f.path # None /\ f \notin Range(files)
    /\ \E f \in Range(files) : f \notin Range(files_before)
    /\ finish_file_list(files) = files

\* TRUE when neither of the two prefixes is a prefix of the other.
DisjointPrefixes(old, new) == ~startswith(old, new) /\ ~startswith(new, old)

\* TRUE when the last call was reprefix(old, new), with disjoint prefixes,
\* and returned.
Reprefixed ==
    /\ file_call.op = "reprefix"
    /\ ~file_call.raised
    /\ DisjointPrefixes(file_call.args[1], file_call.args[2])

\* TRUE when reprefix(new, old), applied after the reprefix(old, new) that
\* was the last call, returns and gives the names the list had at first.
NamesRestored ==
    LET back == reprefix(files, file_call.args[2], file_call.args[1])
    IN ~back.raised /\ Names(back.files) = Names(files_before)

\* C14 as stated: for disjoint prefixes old and new, reprefix(old, new)
\* followed by reprefix(new, old) restores the original set of names.
C14_ReprefixRoundTrip ==
    Reprefixed => NamesRestored

\* C14: for disjoint prefixes old and new, and a file list no name of which
\* starts with new, reprefix(old, new) followed by reprefix(new, old)
\* restores the original set of names.
C14_ReprefixRoundTripIfNewIsFree ==
    Reprefixed /\ (\A n \in Names(files_before) : ~startswith(n, file_call.args[2]))
        => NamesRestored

\* reprefix(old, new) moved one of two files, none was under new before, and
\* reprefix(new, old) gives the names back.
C14_Witness ==
    /\ Reprefixed
    /\ \A n \in Names(files_before) : ~startswith(n, file_call.args[2])
    /\ Cardinality(Names(files) \cap Names(files_before)) = 1
    /\ Cardinality(Names(files) \ Names(files_before)) = 1
    /\ NamesRestored

\* TRUE when the entry d is a directory and the name is below it.
Contains(d, name) == d.directory /\ startswith(name, d.name \o <<"/">>)

NewName(f, old, new) ==
    IF startswith(f.name, old)
    THEN new \o SubSeq(f.name, Len(old) + 1, Len(f.name))
    ELSE f.name

\* The entries the list held when the last call, a reprefix, started, under
\* their new names, without those whose new name is empty.
Renamed ==
    LET old == file_call.args[1]
        new == file_call.args[2]
        kept == SelectSeq(files_before, LAMBDA f : NewName(f, old, new) # <<>>)
    IN [i \in DOMAIN kept |-> [kept[i] EXCEPT !.name = NewName(kept[i], old, new)]]

\* C29 as stated: a reprefix(old, new) that returns loses no entry but those
\* whose new name is empty: the list holds the renamed entries, as many as
\* before, two entries that receive the same name being merged by the rule
\* of add (both directories, or equal in every field); if that rule rejects
\* them the call fails.
C29_NoSilentLoss ==
    (file_call.op = "reprefix" /\ ~file_call.raised) =>
        /\ ~FileList(Renamed).raised
        /\ Range(files) = Range(FileList(Renamed).files)

\* =================================================================== match
\* match (machinery/file_utils.py): the pattern is compiled to a regular
\* expression, which is matched case-insensitively against s and "/" + s.

\* The lower case of a character, as re.I folds it.
lower(c) == IF c = "A" THEN "a" ELSE IF c = "B" THEN "b" ELSE c

\* One piece of the regular expression: ".*" (any), "[^/]*/?" (star), a
\* character set or an escaped character.
Piece(kind, chars) == [kind |-> kind, chars |-> chars]

\* The while loop of match: the pieces of regexstr before the final "$".
RECURSIVE Compile(_)
Compile(pattern) ==
    IF pattern = <<>> THEN <<>>
    ELSE IF startswith(pattern, <<"*", "*">>)
    THEN <<Piece("any", <<>>)>> \o Compile(SubSeq(pattern, 3, Len(pattern)))
    ELSE IF pattern[1] = "*"
    THEN <<Piece("star", <<>>)>> \o Compile(Tail(pattern))
    ELSE IF pattern[1] = "["
    THEN LET rest == Tail(pattern)
             closing == Positions(rest, "]")
             n == IF closing = {} THEN Len(rest) + 1
                  ELSE CHOOSE i \in closing : \A j \in closing : i <= j
         IN <<Piece("set", SubSeq(rest, 1, n - 1))>>
                \o Compile(SubSeq(rest, n + 1, Len(rest)))
    ELSE <<Piece("char", <<pattern[1]>>)>> \o Compile(Tail(pattern))

\* regexp.match(t) for the pieces that are left and the text that is left;
\* no piece left is the "$", which asks for the end of the text.
RECURSIVE RegexMatch(_, _)
RegexMatch(regex, t) ==
    IF regex = <<>> THEN t = <<>>
    ELSE LET r == Head(regex)
             After(k) == SubSeq(t, k + 1, Len(t))
         IN CASE r.kind = "any" ->
                     \E k \in 0..Len(t) : RegexMatch(Tail(regex), After(k))
              [] r.kind = "star" ->
                     \E k \in 0..Len(t) :
                         /\ \A i \in 1..k : t[i] # "/"
                         /\ \/ RegexMatch(Tail(regex), After(k))
                            \/ /\ k < Len(t)
                               /\ t[k + 1] = "/"
                               /\ RegexMatch(Tail(regex), After(k + 1))
              [] OTHER ->
                     /\ t # <<>>
                     /\ lower(t[1]) \in {lower(c) : c \in Range(r.chars)}
                     /\ RegexMatch(Tail(regex), Tail(t))

match(s, pattern) ==
    LET regexp == Compile(pattern)
    IN RegexMatch(regexp, s) \/ RegexMatch(regexp, <<"/">> \o s)

\* ------------------------------------------------------ the calls of match
MaxNameLen == 3
MaxPatternLen == 4

\* The str of at most n characters of a set.
Strings(chars, n) == UNION {[1..k -> chars] : k \in 1..n}

\* The names that are matched: the name of a file, or the name of a
\* directory and a trailing "/".
Candidates ==
    {s \in Strings({"a", "B", "/"}, MaxNameLen) :
        \/ check_file_name(s)
        \/ /\ s[Len(s)] = "/"
           /\ check_file_name(SubSeq(s, 1, Len(s) - 1))}

\* The patterns: globs of "*", "**", "/" and letters, and two with a set.
MatchPatterns ==
    Strings({"a", "b", "/", "*"}, MaxPatternLen)
        \cup {<<"[", "a", "b", "]">>, <<"*", "[", "a", "b">>}

\* match(s, pattern), once in a run.
Match(s, pattern) ==
    /\ ~match_call.called
    /\ match_call' = [called |-> TRUE, s |-> s, pattern |-> pattern,
                      result |-> match(s, pattern)]
    /\ UNCHANGED not_match_vars

NextMatch == \E s \in Candidates : \E pattern \in MatchPatterns : Match(s, pattern)

SpecMatch == InitGraph /\ [][NextMatch]_vars

\* --------------------------------------------------------- claims on match
\* The match of the pieces against the text as C15 describes it: "**" takes
\* any run of characters, "*" a run of characters other than "/", and after
\* it a "/" only when that "/" ends the text, the trailing slash of a
\* directory candidate; letters match in either case; all the text is used.
RECURSIVE ClaimedRegexMatch(_, _)
ClaimedRegexMatch(regex, t) ==
    IF regex = <<>> THEN t = <<>>
    ELSE LET r == Head(regex)
             After(k) == SubSeq(t, k + 1, Len(t))
         IN CASE r.kind = "any" ->
                     \E k \in 0..Len(t) : ClaimedRegexMatch(Tail(regex), After(k))
              [] r.kind = "star" ->
                     \E k \in 0..Len(t) :
                         /\ \A i \in 1..k : t[i] # "/"
                         /\ \/ ClaimedRegexMatch(Tail(regex), After(k))
                            \/ /\ k + 1 = Len(t)
                               /\ t[k + 1] = "/"
                               /\ ClaimedRegexMatch(Tail(regex), After(k + 1))
              [] OTHER ->
                     /\ t # <<>>
                     /\ lower(t[1]) \in {lower(c) : c \in Range(r.chars)}
                     /\ ClaimedRegexMatch(Tail(regex), Tail(t))

ClaimedMatch(s, pattern) ==
    \/ ClaimedRegexMatch(Compile(pattern), s)
    \/ ClaimedRegexMatch(Compile(pattern), <<"/">> \o s)

\* C15: in match(name, pattern) a "*" matches only a run of characters other
\* than "/" and absorbs a "/" only when it is the trailing slash of a
\* directory candidate, "**" matches any run, the match is case-insensitive
\* and covers the whole of name or of "/" + name.
C15_MatchAsClaimed ==
    match_call.called =>
        match_call.result = ClaimedMatch(match_call.s, match_call.pattern)

\* ====================================================== classify_directory
\* classify_directory (machinery/file_utils.py) over the patterns that
\* BuildInfo._process_patterns_list (machinery/buildinfo.py) makes of the
\* declared rules.

\* The file lists of a rule: None, or a tuple of names.
Target(is_none, names) == [is_none |-> is_none, names |-> names]

Rule(pattern, file_list) == [pattern |-> pattern, file_list |-> file_list]

\* BuildInfo._process_patterns_list where a repeated pattern overwrites.
RECURSIVE process_patterns_list_Overwrites(_)
process_patterns_list_Overwrites(patterns) ==
    IF patterns = <<>> THEN <<>>
    ELSE LET rv == process_patterns_list_Overwrites(SubSeq(patterns, 1, Len(patterns) - 1))
             last == patterns[Len(patterns)]
         IN IF \E i \in DOMAIN rv : rv[i].pattern = last.pattern
            THEN [i \in DOMAIN rv |-> IF rv[i].pattern = last.pattern
                                      THEN last ELSE rv[i]]
            ELSE Append(rv, last)

\* BuildInfo._process_patterns_list: the dict of the patterns, in which a
\* pattern keeps its first file lists.
RECURSIVE process_patterns_list(_)
process_patterns_list(patterns) ==
    IF patterns = <<>> THEN <<>>
    ELSE LET rv == process_patterns_list(SubSeq(patterns, 1, Len(patterns) - 1))
             last == patterns[Len(patterns)]
         IN IF \E i \in DOMAIN rv : rv[i].pattern = last.pattern
            THEN rv
            ELSE Append(rv, last)

\* pattern.rstrip("*")
RECURSIVE rstrip(_)
rstrip(pattern) ==
    IF pattern # <<>> /\ pattern[Len(pattern)] = "*"
    THEN rstrip(SubSeq(pattern, 1, Len(pattern) - 1))
    ELSE pattern

\* The for loop of walk without the continue that spares a directory.
RECURSIVE FindRule_NoSkip(_, _, _, _)
FindRule_NoSkip(patterns, i, match_name, is_dir) ==
    IF i > Len(patterns) THEN 0
    ELSE IF match(match_name, patterns[i].pattern) THEN i
    ELSE FindRule_NoSkip(patterns, i + 1, match_name, is_dir)

\* The for loop of walk from the i-th pattern on: the position of the
\* pattern the loop breaks at, 0 when the loop runs to its else clause.
RECURSIVE FindRule(_, _, _, _)
FindRule(patterns, i, match_name, is_dir) ==
    IF i > Len(patterns) THEN 0
    ELSE LET pattern == patterns[i].pattern
             new_pattern == rstrip(pattern)
         IN IF /\ match(match_name, pattern)
               /\ ~(/\ patterns[i].file_list.is_none
                    /\ is_dir
                    /\ pattern # new_pattern
                    /\ match(match_name, new_pattern))
            THEN i
            ELSE FindRule(patterns, i + 1, match_name, is_dir)

\* The directory that is classified: the names, from the directory, of
\* what it holds, and which of them are directories.
Entry(name, is_dir) == [name |-> name, is_dir |-> is_dir]

Tree ==
    {Entry(<<"a">>, TRUE),
     Entry(<<"a", "/", "b">>, FALSE),
     Entry(<<"a", "/", "a">>, TRUE),
     Entry(<<"a", "/", "a", "/", "b">>, FALSE),
     Entry(<<"b">>, FALSE),
     Entry(<<"b", "\r">>, FALSE)}

\* path.iterdir(): what a directory holds, in one of the orders in which
\* the file system may give it; the top directory is <<>>.
Orders(S) == {order \in [1..Cardinality(S) -> S] : Range(order) = S}

iterdir(directory) == Orders({e \in Tree : rpartition(e.name) = directory})

\* re.search('[\x00-\x19]', name)
HasControl(name) == Positions(name, "\r") # {}

\* for fl in file_list: file_lists[fl].add(File(name, path, is_dir, False))
RECURSIVE RegisterIn(_, _, _)
RegisterIn(st, names, f) ==
    IF names = <<>> THEN st
    ELSE LET r == add(st.file_lists[Head(names)], f)
         IN IF r.raised THEN [st EXCEPT !.raised = TRUE]
            ELSE RegisterIn([st EXCEPT !.file_lists[Head(names)] = r.files],
                            Tail(names), f)

\* walk: the states it may leave, one per order of the directories below.
RECURSIVE walk(_, _, _)
RECURSIVE WalkEach(_, _, _)
walk(st, patterns, e) ==
    IF st.raised \/ HasControl(e.name) THEN {st}
    ELSE LET match_name == IF e.is_dir THEN e.name \o <<"/">> ELSE e.name
             i == FindRule(patterns, 1, match_name, e.is_dir)
             seen == [st EXCEPT !.visited = @ \cup {e.name}]
         IN IF i = 0 THEN {seen}
            ELSE IF patterns[i].file_list.is_none THEN {seen}
            ELSE LET registered ==
                         RegisterIn(seen, patterns[i].file_list.names,
                                    File(e.name, "path", e.is_dir, FALSE))
                 IN IF e.is_dir /\ ~registered.raised
                    THEN UNION {WalkEach({registered}, patterns, order) :
                                    order \in iterdir(e.name)}
                    ELSE {registered}

\* The for loop over path.iterdir(), from each of the states.
WalkEach(sts, patterns, order) ==
    IF order = <<>> THEN sts
    ELSE WalkEach(UNION {walk(st, patterns, Head(order)) : st \in sts},
                  patterns, Tail(order))

\* classify_directory: the states it may leave.
classify_directory(lists, patterns) ==
    UNION {WalkEach({[file_lists |-> lists, visited |-> {}, raised |-> FALSE]},
                    patterns, order) : order \in iterdir(<<>>)}

\* ------------------------------------------------ the classification runs
MaxRules == 3

\* The patterns of the rules: "a/**", "**", "*", "**/*".
RulePatterns ==
    {<<"a", "/", "*", "*">>, <<"*", "*">>, <<"*">>, <<"*", "*", "/", "*">>}

\* The file lists of the rules: None, ("all",), ("all", "mac").
RuleTargets ==
    {Target(TRUE, <<>>), Target(FALSE, <<"all">>), Target(FALSE, <<"all", "mac">>)}

\* One more (pattern, file lists) pair in the patterns of buildinfo.py.
DeclareRule(pattern, file_list) ==
    /\ classify_pc = "declare"
    /\ Len(rules) < MaxRules
    /\ rules' = Append(rules, Rule(pattern, file_list))
    /\ UNCHANGED <<file_lists, visited, classify_pc>>
    /\ UNCHANGED not_classify_vars

\* BuildInfo.from_module makes the patterns of the declared rules, and
\* scan_project classifies the directory with them.
ClassifyDirectory ==
    /\ classify_pc = "declare"
    /\ \E st \in classify_directory(file_lists, process_patterns_list(rules)) :
           /\ file_lists' = st.file_lists
           /\ visited' = st.visited
           /\ classify_pc' = IF st.raised THEN "raised" ELSE "classified"
    /\ UNCHANGED rules
    /\ UNCHANGED not_classify_vars

NextClassify ==
    \/ \E pattern \in RulePatterns : \E file_list \in RuleTargets :
           DeclareRule(pattern, file_list)
    \/ ClassifyDirectory

SpecClassify == InitGraph /\ [][NextClassify]_vars

\* -------------------------------------------- claims on classify_directory
\* The name an entry is matched under.
MatchName(e) == IF e.is_dir THEN e.name \o <<"/">> ELSE e.name

\* The entries walk matched against the patterns.
VisitedEntries == {e \in Tree : e.name \in visited}

\* The entries below a directory.
Below(d) == {e \in Tree : startswith(e.name, d.name \o <<"/">>)}

\* The file lists an entry is registered in.
RegisteredIn(e) == {fl \in FileListNames : e.name \in Names(file_lists[fl])}

\* The declared rules that count: a rule that repeats the pattern of an
\* earlier rule is dropped when the patterns are made.
Kept == {i \in DOMAIN rules : \A j \in 1..(i - 1) : rules[j].pattern # rules[i].pattern}

\* The rules that count and whose pattern matches the entry.
Matching(e) == {i \in Kept : match(MatchName(e), rules[i].pattern)}

\* The least of a set of positions, 0 for the empty set.
First(S) == IF S = {} THEN 0 ELSE CHOOSE i \in S : \A j \in S : i <= j

FirstMatching(e) == First(Matching(e))

\* TRUE when the i-th rule is an exclude rule that matches the directory e
\* with its trailing "*" removed as well.
Spared(e, i) ==
    /\ e.is_dir
    /\ rules[i].file_list.is_none
    /\ rstrip(rules[i].pattern) # rules[i].pattern
    /\ match(MatchName(e), rstrip(rules[i].pattern))

\* The first matching rule that is not an exclude rule the entry is spared.
Effective(e) == First({i \in Matching(e) : ~Spared(e, i)})

\* The file lists the i-th rule names: none for no rule and for an exclude.
ListsOf(i) ==
    IF i = 0 THEN {}
    ELSE IF rules[i].file_list.is_none THEN {}
    ELSE Range(rules[i].file_list.names)

\* TRUE when no entry below a directory without lists is in a list.
NothingBelowUnlisted ==
    \A d \in VisitedEntries :
        d.is_dir /\ ListsOf(Effective(d)) = {} =>
            \A e \in Below(d) : RegisteredIn(e) = {}

\* C16 as stated: each visited entry is registered in exactly the file lists
\* of the first declared rule whose pattern matches it; an entry with no
\* matching rule or an exclude as effective rule is in no list, and nor is
\* anything below it.
C16_FirstMatchingRule ==
    classify_pc = "classified" =>
        /\ \A e \in VisitedEntries : RegisteredIn(e) = ListsOf(FirstMatching(e))
        /\ NothingBelowUnlisted

\* C16: each visited entry is registered in exactly the file lists of the
\* first declared rule whose pattern matches it and that is not an exclude
\* rule the entry, a directory, is spared; an entry with no such rule or an
\* exclude as that rule is in no list, and nor is anything below it.
C16_FirstEffectiveRule ==
    classify_pc = "classified" =>
        /\ \A e \in VisitedEntries : RegisteredIn(e) = ListsOf(Effective(e))
        /\ NothingBelowUnlisted

\* A file is in two lists by the second rule, the first not matching it,
\* and a directory that holds a file is excluded.
C16_Witness ==
    /\ classify_pc = "classified"
    /\ \E e \in VisitedEntries :
           /\ ~e.is_dir
           /\ FirstMatching(e) = 2
           /\ RegisteredIn(e) = {"all", "mac"}
    /\ \E d \in VisitedEntries :
           /\ d.is_dir
           /\ Effective(d) # 0
           /\ rules[Effective(d)].file_list.is_none
           /\ Below(d) # {}

\* The visited directories whose first matching rule is an exclude rule
\* that matches them with its trailing "*" removed as well.
SparedDirectories ==
    {d \in VisitedEntries : FirstMatching(d) # 0 /\ Spared(d, FirstMatching(d))}

\* The rule that decides a spared directory: the first later rule that
\* matches it and is not an exclude rule it is spared as well.
Later(d) ==
    First({i \in Matching(d) : i > FirstMatching(d) /\ ~Spared(d, i)})

\* C17 as stated: a directory whose first matching rule is an exclude rule
\* that still matches it with the trailing "*" removed is registered as
\* the later rules say, and every entry below it whose first matching rule
\* is that exclude rule is in no list.
C17_SparedDirectory ==
    classify_pc = "classified" =>
        \A d \in SparedDirectories :
            /\ RegisteredIn(d) = ListsOf(Later(d))
            /\ \A e \in Below(d) :
                   FirstMatching(e) = FirstMatching(d) => RegisteredIn(e) = {}

\* C17: a directory whose first matching rule is an exclude rule that still
\* matches it with the trailing "*" removed is registered as the later
\* rules say, and every entry below it whose first matching rule is that
\* exclude rule is in no list, unless it is a directory that the rule
\* spares in the same way.
C17_SparedDirectoryAndBelow ==
    classify_pc = "classified" =>
        \A d \in SparedDirectories :
            /\ RegisteredIn(d) = ListsOf(Later(d))
            /\ \A e \in Below(d) :
                   FirstMatching(e) = FirstMatching(d) /\ ~Spared(e, FirstMatching(e))
                       => RegisteredIn(e) = {}

\* A spared directory is in a list by a later rule, and a file below it was
\* visited and excluded by the rule the directory was spared.
C17_Witness ==
    /\ classify_pc = "classified"
    /\ \E d \in SparedDirectories :
           /\ RegisteredIn(d) # {}
           /\ \E e \in Below(d) \cap VisitedEntries :
                  /\ ~e.is_dir
                  /\ FirstMatching(e) = FirstMatching(d)
                  /\ RegisteredIn(e) = {}

\* ---------------------------------------------------------------------------
\* BuildInfo: its construction from buildinfo.py (from_module) and from
\* dump.json (from_dump).
\* ---------------------------------------------------------------------------

\* Package(name, ..., file_lists, ...) and Archive(name, filename, file_lists,
\* ...): the name and the file lists are the fields the construction of a
\* BuildInfo reads.
Package(name, lists) == [name |-> name, file_lists |-> lists]

Archive(name, lists) == [name |-> name, file_lists |-> lists]

\* BuildInfo.SPECIAL_PACKAGES, in the order of the dict.
SPECIAL_PACKAGES ==
    <<Package("android-bundle", <<"android", "all">>),
      Package("android-apk", <<"android", "all">>),
      Package("ios", <<"ios", "all">>),
      Package("web", <<"web", "renpy", "all">>)>>

\* builtin_packages of from_dump
builtin_packages == {"pc", "linux", "mac", "win", "market", "steam"}

\* What a step of the construction gives: the exception it raised, if any, and
\* the value it made.
Made(value) == [error |-> "none", what |-> "none", value |-> value]

Failed(exception, what) == [error |-> exception, what |-> what, value |-> <<>>]

\* The loop of from_dump over data["packages"].
RECURSIVE dump_packages(_, _)
dump_packages(rpackages, ps) ==
    IF ps = <<>> THEN Made(rpackages)
    ELSE LET package == Head(ps)
         IN IF package.name \in {"android", "ios", "web"}
            THEN dump_packages(rpackages, Tail(ps))
            ELSE IF IndexOf(rpackages, package.name) # 0
            THEN Failed("AssertionError", "Duplicate package")
            ELSE IF package.name \notin builtin_packages
            THEN Failed("Exception", "Package")
            ELSE IF package.file_lists = <<>>
            THEN Failed("AssertionError", "File lists")
            ELSE dump_packages(Append(rpackages, Package(package.name, package.file_lists)),
                               Tail(ps))

\* The loop of from_dump over data["archives"].
RECURSIVE dump_archives(_, _)
dump_archives(rarchives, as) ==
    IF as = <<>> THEN Made(rarchives)
    ELSE LET arc == Head(as)
         IN IF IndexOf(rarchives, arc.name) # 0
            THEN Failed("AssertionError", "Duplicate archive")
            ELSE IF arc.file_lists = <<>>
            THEN Failed("AssertionError", "File lists")
            ELSE dump_archives(Append(rarchives, Archive(arc.name, arc.file_lists)),
                               Tail(as))

\* check_used of _check_filelists raises: some name of file_list is not in
\* file_lists_to_use.
check_used(file_list, file_lists_to_use) ==
    Range(file_list) \ file_lists_to_use # {}

\* The loop of _check_filelists over the items of a patterns dict raises.
check_patterns(patterns, file_lists_to_use) ==
    \E i \in DOMAIN patterns :
        /\ ~patterns[i].file_list.is_none
        /\ check_used(patterns[i].file_list.names, file_lists_to_use)

\* BuildInfo._check_filelists where the archives are not checked.
check_filelists_ArchivesUnchecked(ps, as, gp, rp) ==
    LET package_lists == UNION {Range(p.file_lists) : p \in Range(ps)}
        file_lists_to_use == package_lists \cup {a.name : a \in Range(as)}
    IN IF check_patterns(gp, file_lists_to_use)
       THEN Failed("Exception", "Game pattern")
       ELSE IF check_patterns(gp, file_lists_to_use)
       THEN Failed("Exception", "RenPy pattern")
       ELSE Made(file_lists_to_use)

\* BuildInfo._check_filelists: the archives are checked against the file
\* lists of the packages, then the names of the archives are added, then
\* both loops over the patterns read game_patterns (lines 544 and 548), and
\* renpy_patterns is a parameter that is not read.
check_filelists(ps, as, gp, rp) ==
    LET package_lists == UNION {Range(p.file_lists) : p \in Range(ps)}
        file_lists_to_use == package_lists \cup {a.name : a \in Range(as)}
    IN IF \E i \in DOMAIN as : check_used(as[i].file_lists, package_lists)
       THEN Failed("Exception", "Archive")
       ELSE IF check_patterns(gp, file_lists_to_use)
       THEN Failed("Exception", "Game pattern")
       ELSE IF check_patterns(gp, file_lists_to_use)
       THEN Failed("Exception", "RenPy pattern")
       ELSE Made(file_lists_to_use)

\* BuildInfo.__post_init__ raises.
post_init(directory_name) ==
    {" ", ":", ";"} \cap Range(directory_name) # {}

\* cls(...): the BuildInfo of the checked declarations, or the ValueError of
\* __post_init__.
BuildInfo(directory_name, all_file_lists, ps, as, gp, rp) ==
    IF post_init(directory_name)
    THEN [NotBuilt EXCEPT !.state = "raised", !.error = "ValueError",
                          !.what = "directory_name"]
    ELSE [state |-> "constructed", error |-> "none", what |-> "none",
          file_lists |-> all_file_lists, packages |-> ps, archives |-> as,
          game_patterns |-> gp, renpy_patterns |-> rp]

\* The construction ended with an exception.
Raised(failed) ==
    [NotBuilt EXCEPT !.state = "raised", !.error = failed.error,
                     !.what = failed.what]

\* BuildInfo.from_module(mod)
from_module(directory_name, ps, as, gps, rps) ==
    LET gp == process_patterns_list(gps)
        rp == process_patterns_list(rps)
        all_file_lists == check_filelists(ps, as, gp, rp)
    IN IF all_file_lists.error # "none" THEN Raised(all_file_lists)
       ELSE BuildInfo(directory_name, all_file_lists.value, ps, as, gp, rp)

\* BuildInfo.from_dump(data)
from_dump(directory_name, ps, as, gps, rps) ==
    LET rpackages == dump_packages(SPECIAL_PACKAGES, ps)
        rarchives == dump_archives(<<>>, as)
        gp == process_patterns_list(gps)
        rp == process_patterns_list(rps)
        all_file_lists == check_filelists(rpackages.value, rarchives.value, gp, rp)
    IN IF rpackages.error # "none" THEN Raised(rpackages)
       ELSE IF rarchives.error # "none" THEN Raised(rarchives)
       ELSE IF all_file_lists.error # "none" THEN Raised(all_file_lists)
       ELSE BuildInfo(directory_name, all_file_lists.value,
                      rpackages.value, rarchives.value, gp, rp)

\* How many declarations the source of a build holds at most.
MaxDeclared == 3

\* The names of the declared packages: a builtin one, one from_dump skips and
\* one of the project.
PackageNames == {"mac", "web", "dlc"}

ArchiveNames == {"archive", "secret"}

\* The file lists of the declared packages and archives.
PackageLists == {<<"all">>, <<"mac", "all">>}

ArchiveLists == {<<"all">>, <<"mac">>}

\* The patterns and the file lists of the declared (pattern, file lists)
\* pairs: None, a file list of SPECIAL_PACKAGES and of PackageLists, and a
\* name that is valid when the archive of that name is declared.
BuildPatterns == {<<"*", "*">>, <<"*">>}

BuildTargets ==
    {Target(TRUE, <<>>), Target(FALSE, <<"all">>), Target(FALSE, <<"secret">>)}

\* directory_name: one that __post_init__ accepts and one with a space.
DirectoryNames == {<<"g">>, <<"g", " ">>}

Declared ==
    Len(packages) + Len(archives) + Len(game_patterns) + Len(renpy_patterns)

Declaring ==
    /\ build_info.state = "none"
    /\ Declared < MaxDeclared

\* --legacy-build on the command line: update_dump will read dump.json of the
\* project, which is written by the engine, instead of buildinfo.py.
LegacyBuild ==
    /\ build_info.state = "none"
    /\ Declared = 0
    /\ ~legacy_build
    /\ legacy_build' = TRUE
    /\ UNCHANGED <<packages, archives, game_patterns, renpy_patterns, build_info>>
    /\ UNCHANGED not_build_vars

\* build.package(name, format, file_lists, ...) in buildinfo.py:
\* packages[name] = Package(...).
DeclarePackage(name, lists) ==
    /\ Declaring
    /\ ~legacy_build
    /\ lists # <<>>
    /\ packages' = DictSet(packages, Package(name, lists))
    /\ UNCHANGED <<legacy_build, archives, game_patterns, renpy_patterns, build_info>>
    /\ UNCHANGED not_build_vars

\* build.archive(name, file_list) in buildinfo.py:
\* archives[name] = Archive(...).
DeclareArchive(name, file_list) ==
    /\ Declaring
    /\ ~legacy_build
    /\ file_list # <<>>
    /\ archives' = DictSet(archives, Archive(name, file_list))
    /\ UNCHANGED <<legacy_build, packages, game_patterns, renpy_patterns, build_info>>
    /\ UNCHANGED not_build_vars

\* One more entry of data["packages"] of dump.json.
DumpPackage(name, lists) ==
    /\ Declaring
    /\ legacy_build
    /\ packages' = Append(packages, [name |-> name, file_lists |-> lists])
    /\ UNCHANGED <<legacy_build, archives, game_patterns, renpy_patterns, build_info>>
    /\ UNCHANGED not_build_vars

\* One more entry of data["archives"] of dump.json.
DumpArchive(name, lists) ==
    /\ Declaring
    /\ legacy_build
    /\ archives' = Append(archives, [name |-> name, file_lists |-> lists])
    /\ UNCHANGED <<legacy_build, packages, game_patterns, renpy_patterns, build_info>>
    /\ UNCHANGED not_build_vars

\* build.classify(pattern, file_list) in buildinfo.py, or one more entry of
\* data["base_patterns"] of dump.json.
Classify(pattern, file_list) ==
    /\ Declaring
    /\ game_patterns' = Append(game_patterns, Rule(pattern, file_list))
    /\ UNCHANGED <<legacy_build, packages, archives, renpy_patterns, build_info>>
    /\ UNCHANGED not_build_vars

\* One more entry of renpy_patterns of buildinfo.py or of dump.json.
DeclareRenpyPattern(pattern, file_list) ==
    /\ Declaring
    /\ renpy_patterns' = Append(renpy_patterns, Rule(pattern, file_list))
    /\ UNCHANGED <<legacy_build, packages, archives, game_patterns, build_info>>
    /\ UNCHANGED not_build_vars

\* update_dump, common path: context.build_info = BuildInfo.from_module(buildinfo)
FromModule(directory_name) ==
    /\ build_info.state = "none"
    /\ ~legacy_build
    /\ build_info' = from_module(directory_name, packages, archives,
                                 game_patterns, renpy_patterns)
    /\ UNCHANGED <<legacy_build, packages, archives, game_patterns, renpy_patterns>>
    /\ UNCHANGED not_build_vars

\* update_dump, legacy path: context.build_info = BuildInfo.from_dump(data)
FromDump(directory_name) ==
    /\ build_info.state = "none"
    /\ legacy_build
    /\ build_info' = from_dump(directory_name, packages, archives,
                               game_patterns, renpy_patterns)
    /\ UNCHANGED <<legacy_build, packages, archives, game_patterns, renpy_patterns>>
    /\ UNCHANGED not_build_vars

NextBuildInfo ==
    \/ LegacyBuild
    \/ \E name \in PackageNames : \E lists \in PackageLists :
           DeclarePackage(name, lists)
    \/ \E name \in ArchiveNames : \E file_list \in ArchiveLists :
           DeclareArchive(name, file_list)
    \/ \E name \in PackageNames : \E lists \in PackageLists \cup {<<>>} :
           DumpPackage(name, lists)
    \/ \E name \in ArchiveNames : \E lists \in ArchiveLists \cup {<<>>} :
           DumpArchive(name, lists)
    \/ \E pattern \in BuildPatterns : \E file_list \in BuildTargets :
           Classify(pattern, file_list)
    \/ \E pattern \in BuildPatterns : \E file_list \in BuildTargets :
           DeclareRenpyPattern(pattern, file_list)
    \/ \E directory_name \in DirectoryNames : FromModule(directory_name)
    \/ \E directory_name \in DirectoryNames : FromDump(directory_name)

SpecBuildInfo == InitGraph /\ [][NextBuildInfo]_vars

\* ---------------------------------------------------------------------------
\* Claims about the construction of a BuildInfo.
\* ---------------------------------------------------------------------------

\* The packages a constructed BuildInfo has: the declared ones, and in a
\* legacy build the special packages and the declared ones from_dump does not
\* skip.
PackagesOfBuild ==
    IF legacy_build
    THEN SPECIAL_PACKAGES \o
         SelectSeq(packages, LAMBDA p : p.name \notin {"android", "ios", "web"})
    ELSE packages

\* The file-list names some Package references.
Referenced == UNION {Range(p.file_lists) : p \in Range(PackagesOfBuild)}

\* The names a rule may target: those and the names of the archives.
ValidTargets == Referenced \cup {a.name : a \in Range(archives)}

\* from_module or from_dump was called.
Constructing == build_info.state # "none"

\* Some Archive references a file-list name no Package references.
ArchiveOfNoPackage ==
    \E a \in Range(archives) : ~(Range(a.file_lists) \subseteq Referenced)

\* The rules of a patterns list that are not dropped as the repetition of an
\* earlier pattern.
KeptRules(patterns) ==
    {patterns[i] : i \in {k \in DOMAIN patterns :
                             \A j \in 1..(k - 1) : patterns[j].pattern # patterns[k].pattern}}

\* Some rule of the list targets a name that is neither referenced by a
\* Package nor the name of an Archive.
Unresolved(patterns) ==
    \E r \in KeptRules(patterns) :
        /\ ~r.file_list.is_none
        /\ ~(Range(r.file_list.names) \subseteq ValidTargets)

C19_RulesChecked ==
    /\ Constructing
    /\ Unresolved(game_patterns) \/ Unresolved(renpy_patterns)
    => build_info.state = "raised"

\* ---------------------------------------------------------------------------
\* Archivers and Packagers: write_length and the steps of write, as the tasks
\* write_archives and write_packages drive them.
\* ---------------------------------------------------------------------------

\* An Archiver or Packager: the format it is registered for, its file_list,
\* and the second file list of the packagers that write two (gamezip_file_list
\* of a WebPackager; for an AndroidPackager file_list is private.file_list and
\* second is assets.file_list).
Writer(kind, file_list, second) ==
    [kind |-> kind, file_list |-> file_list, second |-> second]

\* What a generator does until it ends: how many times it yields, and whether
\* it ends with an exception.
Steps(yields, raised) == [yields |-> yields, raised |-> raised]

\* yield from first; yield from second
YieldFrom(first, second) ==
    IF first.raised THEN first
    ELSE Steps(first.yields + second.yields, second.raised)

\* path.is_file() of the path of a File
is_file(f) == f.path # None /\ ~f.directory

\* write_file or write_directory of a packager class raises for the File:
\* ZipPackager, DirectoryPackager, AndroidBundlePackager and
\* AndroidXFilePackager refuse a file without path and skip a directory
\* without path, TarPackager writes both, and AndroidPrivatePackager hands the
\* path to tarfile.add.
write_entry_raises(class, f) ==
    CASE class \in {"ZipPackager", "DirectoryPackager", "AndroidBundlePackager",
                    "AndroidXFilePackager"} -> ~f.directory /\ f.path = None
      [] class = "TarPackager" -> FALSE
      [] class = "AndroidPrivatePackager" -> f.path = None

\* Packager.write: one yield per File of file_list, after it is written.
RECURSIVE Packager_write(_, _)
Packager_write(class, fl) ==
    IF fl = <<>> THEN Steps(0, FALSE)
    ELSE IF write_entry_raises(class, Head(fl)) THEN Steps(0, TRUE)
    ELSE YieldFrom(Steps(1, FALSE), Packager_write(class, Tail(fl)))

\* Packager.write_length
Packager_write_length(fl) == Len(fl)

\* The files of an archiver after the loop of write in write_archives added
\* them.
added_files(w) == w.file_list

\* The loop of write in write_archives raises: a File has no path.
add_raises(w) ==
    /\ w.kind = "rpa"
    /\ \E i \in DOMAIN w.file_list : w.file_list[i].path = None

\* write_length where RenPyRPA3Archiver counts every file it holds.
write_length_EveryFile(w) ==
    CASE w.kind = "rpa" -> Len(added_files(w)) + 2
      [] w.kind \in {"zip", "directory", "tar", "dmg"} ->
             Packager_write_length(w.file_list)
      [] w.kind = "web" ->
             Packager_write_length(w.file_list) + Len(w.second)
      [] w.kind = "android-bundle" ->
             Packager_write_length(w.file_list) + (Packager_write_length(w.second) + 4)
      [] w.kind = "android-apk" ->
             Packager_write_length(w.file_list) + Packager_write_length(w.second)

\* write_length of RenPyRPA3Archiver, of Packager (ZipPackager,
\* DirectoryPackager, TarPackager and DMGPackager inherit it), of WebPackager
\* and of AndroidPackager, whose assets are an AndroidBundlePackager or an
\* AndroidXFilePackager.
write_length(w) ==
    CASE w.kind = "rpa" ->
             Cardinality({i \in DOMAIN added_files(w) : is_file(added_files(w)[i])}) + 2
      [] w.kind \in {"zip", "directory", "tar", "dmg"} ->
             Packager_write_length(w.file_list)
      [] w.kind = "web" ->
             Packager_write_length(w.file_list) + Len(w.second)
      [] w.kind = "android-bundle" ->
             Packager_write_length(w.file_list) + (Packager_write_length(w.second) + 4)
      [] w.kind = "android-apk" ->
             Packager_write_length(w.file_list) + Packager_write_length(w.second)

\* write of the same classes: the archiver yields after the padding, after
\* each file that is a file, and after the index; a WebPackager writes the
\* game zip and then itself, an AndroidPackager its private packager and then
\* its assets, and an AndroidBundlePackager yields for each of its four
\* targets first.
write(w) ==
    CASE w.kind = "rpa" ->
             YieldFrom(Steps(1, FALSE),
                 YieldFrom(Steps(Len(SelectSeq(added_files(w), is_file)), FALSE),
                           Steps(1, FALSE)))
      [] w.kind = "zip" -> Packager_write("ZipPackager", w.file_list)
      [] w.kind \in {"directory", "dmg"} ->
             Packager_write("DirectoryPackager", w.file_list)
      [] w.kind = "tar" -> Packager_write("TarPackager", w.file_list)
      [] w.kind = "web" ->
             YieldFrom(Packager_write("ZipPackager", w.second),
                       Packager_write("ZipPackager", w.file_list))
      [] w.kind = "android-bundle" ->
             YieldFrom(Packager_write("AndroidPrivatePackager", w.file_list),
                 YieldFrom(Steps(4, FALSE),
                           Packager_write("AndroidBundlePackager", w.second)))
      [] w.kind = "android-apk" ->
             YieldFrom(Packager_write("AndroidPrivatePackager", w.file_list),
                       Packager_write("AndroidXFilePackager", w.second))

\* How many files the file lists of a writer hold at most.
MaxWritten == 2

\* The formats of the writers, and those of them that write two file lists.
WriterKinds ==
    {"rpa", "zip", "directory", "tar", "dmg", "web", "android-bundle", "android-apk"}

TwoListKinds == {"web", "android-bundle", "android-apk"}

\* The files of the writers: files and directories, with and without a path.
WrittenFiles ==
    [name : {<<"a">>, <<"a", "/", "b">>, <<"b">>}, path : FilePaths,
     directory : BOOLEAN, executable : {FALSE}]

\* The file lists of at most n files: a FileList holds a name once, and its
\* files are sorted before the build writes them.
WrittenLists(n) ==
    {fl \in UNION {[1..k -> WrittenFiles] : k \in 0..n} :
        \A i \in 1..(Len(fl) - 1) : StrLess(fl[i].name, fl[i + 1].name)}

\* What write_file or write_directory of a packager class puts into the
\* output for the File: a file, a directory, or nothing. A TarPackager without
\* a path makes a TarInfo of type DIRTYPE, for a file too; the other classes
\* skip a directory without path.
write_entry(class, f) ==
    IF f.path = None
    THEN IF class = "TarPackager" THEN "directory" ELSE "nothing"
    ELSE IF f.directory THEN "directory" ELSE "file"

Entry_of(name, type) == [name |-> name, type |-> type]

\* The entries Packager.write has put into the output when it yielded for the
\* n-th time.
RECURSIVE Packager_written(_, _, _)
Packager_written(class, fl, n) ==
    IF n <= 0 \/ fl = <<>> THEN <<>>
    ELSE LET type == write_entry(class, Head(fl))
             rest == Packager_written(class, Tail(fl), n - 1)
         IN IF type = "nothing" THEN rest
            ELSE <<Entry_of(Head(fl).name, type)>> \o rest

\* The four targets of an AndroidBundlePackager, each with its 00_pack.txt.
BundleTargets(n) ==
    [i \in 1..(IF n < 4 THEN (IF n < 0 THEN 0 ELSE n) ELSE 4) |->
        Entry_of(<<"f", "f">>, "file")]

\* The entries the output of a writer holds when its write yielded for the
\* n-th time.
written(w, n) ==
    LET first == Packager_write(
                     IF w.kind = "web" THEN "ZipPackager" ELSE "AndroidPrivatePackager",
                     IF w.kind = "web" THEN w.second ELSE w.file_list).yields
    IN CASE w.kind = "rpa" ->
                [i \in 1..(IF n - 1 > Len(SelectSeq(added_files(w), is_file))
                           THEN Len(SelectSeq(added_files(w), is_file))
                           ELSE IF n < 1 THEN 0 ELSE n - 1) |->
                    Entry_of(SelectSeq(added_files(w), is_file)[i].name, "file")]
         [] w.kind = "zip" -> Packager_written("ZipPackager", w.file_list, n)
         [] w.kind \in {"directory", "dmg"} ->
                Packager_written("DirectoryPackager", w.file_list, n)
         [] w.kind = "tar" -> Packager_written("TarPackager", w.file_list, n)
         [] w.kind = "web" ->
                Packager_written("ZipPackager", w.second, n)
                    \o Packager_written("ZipPackager", w.file_list, n - first)
         [] w.kind = "android-bundle" ->
                Packager_written("AndroidPrivatePackager", w.file_list, n)
                    \o BundleTargets(n - first)
                    \o Packager_written("AndroidBundlePackager", w.second, n - first - 4)
         [] w.kind = "android-apk" ->
                Packager_written("AndroidPrivatePackager", w.file_list, n)
                    \o Packager_written("AndroidXFilePackager", w.second, n - first)

\* The n-th yield of write is inside the with block of a file: every yield of
\* RenPyRPA3Archiver, ZipPackager, TarPackager and AndroidPrivatePackager is;
\* DirectoryPackager, AndroidBundlePackager and AndroidXFilePackager copy
\* every file on its own.
open_at(w, n) ==
    CASE w.kind \in {"rpa", "zip", "tar", "web"} -> TRUE
      [] w.kind \in {"directory", "dmg"} -> FALSE
      [] w.kind \in {"android-bundle", "android-apk"} ->
             n <= Packager_write("AndroidPrivatePackager", w.file_list).yields

\* The header of the archive at the n-th yield of RenPyRPA3Archiver.write: the
\* padding, and at the last yield the index offset and the key, written into
\* the file object that is still open.
header_at(w, n) ==
    IF w.kind # "rpa" THEN "none"
    ELSE IF n < write(w).yields THEN "padding" ELSE "offset"

\* The step of a write that yields the next pair, or ends it: the end leaves
\* every with block, which closes the file.
Advance(w, total, pairs) ==
    IF Len(pairs) < write(w).yields
    THEN /\ progress' = Append(pairs, <<Len(pairs) + 1, total>>)
         /\ write_pc' = "writing"
         /\ output' = [state |-> IF open_at(w, Len(pairs) + 1) THEN "open"
                                 ELSE IF w.kind \in {"directory", "dmg"} THEN "none"
                                 ELSE "closed",
                       header |-> header_at(w, Len(pairs) + 1),
                       entries |-> written(w, Len(pairs) + 1)]
    ELSE /\ progress' = pairs
         /\ write_pc' = IF write(w).raised THEN "raised" ELSE "done"
         /\ output' = [state |-> IF w.kind \in {"directory", "dmg"} THEN "none"
                                 ELSE "closed",
                       header |-> header_at(w, Len(pairs)),
                       entries |-> written(w, Len(pairs))]

\* init_archiver or init_packager, and the tasks that fill the file lists.
InitWriter(kind, file_list, second) ==
    /\ write_pc = "none"
    /\ kind \notin TwoListKinds => second = <<>>
    /\ writer' = Writer(kind, file_list, second)
    /\ write_pc' = "ready"
    /\ UNCHANGED <<write_total, progress, output>>
    /\ UNCHANGED not_write_vars

\* The first next() of write in write_archives or write_packages: the files
\* are added to an archiver, write_length is taken, and write of the writer
\* runs to its first yield.
BeginWrite ==
    /\ write_pc = "ready"
    /\ IF add_raises(writer)
       THEN /\ write_pc' = "raised"
            /\ UNCHANGED <<write_total, progress, output>>
       ELSE /\ write_total' = write_length(writer)
            /\ Advance(writer, write_length(writer), progress)
    /\ UNCHANGED writer
    /\ UNCHANGED not_write_vars

\* One more next(): write of the writer runs to its next yield or to its end.
ContinueWrite ==
    /\ write_pc = "writing"
    /\ Advance(writer, write_total, progress)
    /\ UNCHANGED <<writer, write_total>>
    /\ UNCHANGED not_write_vars

NextWrite ==
    \/ \E kind \in WriterKinds : \E file_list \in WrittenLists(MaxWritten) :
           \E second \in WrittenLists(MaxWritten - Len(file_list)) :
               InitWriter(kind, file_list, second)
    \/ BeginWrite
    \/ ContinueWrite

SpecWrite == InitGraph /\ [][NextWrite]_vars

\* ---------------------------------------------------------------------------
\* Claims about the progress of a write.
\* ---------------------------------------------------------------------------

\* C20: for every Archiver and Packager a complete write yields as many steps
\* as write_length returned before the write started: the pairs
\* (i, write_length) that write_archives and write_packages report count from
\* 1, all carry that write_length, and the last one has i = write_length.
C20_StepsAreWriteLength ==
    write_pc = "done" =>
        /\ write_total = write_length(writer)
        /\ Len(progress) = write_total
        /\ \A i \in DOMAIN progress : progress[i] = <<i, write_total>>
        /\ progress # <<>> => progress[Len(progress)][1] = write_total

\* A complete write of an archive that holds a file and a directory, which
\* is not a step of its own.
C20_Witness ==
    /\ write_pc = "done"
    /\ writer.kind = "rpa"
    /\ \E i \in DOMAIN writer.file_list : writer.file_list[i].directory
    /\ \E i \in DOMAIN writer.file_list : is_file(writer.file_list[i])
    /\ progress[Len(progress)] = <<3, 3>>

\* write has handed the last progress step of a write that does not raise to
\* its consumer, which has not asked for more yet.
FinalStepHanded ==
    /\ write_pc = "writing"
    /\ ~write(writer).raised
    /\ Len(progress) = write(writer).yields

\* C21: when write hands its final progress step to the consumer, the output
\* archive or package file is already fully written and closed.
C21_ClosedAtFinalStep ==
    FinalStepHanded => output.state # "open"

\* The files of a writer that are not directories and have no path.
PathlessLeaves ==
    {f \in Range(writer.file_list) : ~f.directory /\ f.path = None}

\* C22: the zip, tar, directory and disk-image packagers fail when they are to
\* write a non-directory entry whose path is None: the write raises, and no
\* entry of that name is in the output.
C22_PathlessLeafFails ==
    /\ write_pc \in {"done", "raised"}
    /\ writer.kind \in {"zip", "tar", "directory", "dmg"}
    /\ PathlessLeaves # {}
    => /\ write_pc = "raised"
       /\ \A f \in PathlessLeaves :
              \A i \in DOMAIN output.entries : output.entries[i].name # f.name

\* ---------------------------------------------------------------------------
\* Interface.background and Interface.run_in_thread_pool: the main thread that
\* owns a ThreadPoolExecutor, and the units of work of its worker threads.
\* ---------------------------------------------------------------------------

\* A unit of work: how many steps it still takes (the progress pairs of
\* update_func_progress, or the work of the function of background), whether
\* it ends with an exception, and whether it runs, returned or raised.
Unit(left, fails, state) == [left |-> left, fails |-> fails, state |-> state]

\* How many units a pool runs, and how many steps a unit takes, at most.
MaxUnits == 2

MaxWork == 2

\* The work that is handed to a pool.
Works ==
    UNION {[1..n -> [left : 0..MaxWork, fails : BOOLEAN]] : n \in 0..MaxUnits}

\* Some worker thread runs a unit.
Running == \E i \in DOMAIN units : units[i].state = "running"

\* run_in_thread_pool as execute_in_thread_pool drives it: the units are
\* submitted; without units the with block and the call end at once.
RunInThreadPool(works, raise_on_exception) ==
    /\ owner_pc = "idle"
    /\ units' = [i \in DOMAIN works |-> Unit(works[i].left, works[i].fails, "running")]
    /\ future_to_i' = DOMAIN works
    /\ pool_call' = [kind |-> "pool", raise_on_exception |-> raise_on_exception]
    /\ owner_pc' = IF works = <<>> THEN "returned" ELSE "waiting"
    /\ UNCHANGED <<owner_error, interrupts>>
    /\ UNCHANGED not_pool_vars

\* background: the function is submitted as the only unit of its pool.
Background(work, raise_on_exception) ==
    /\ owner_pc = "idle"
    /\ units' = <<Unit(work.left, work.fails, "running")>>
    /\ future_to_i' = {1}
    /\ pool_call' = [kind |-> "background", raise_on_exception |-> raise_on_exception]
    /\ owner_pc' = "waiting"
    /\ UNCHANGED <<owner_error, interrupts>>
    /\ UNCHANGED not_pool_vars

\* A worker thread: one more step of its unit, or the end of the unit. It
\* reads nothing of the owner: update_entity returns at once for a halted
\* entity, and nothing cancels a future.
UnitStep(i) ==
    /\ units[i].state = "running"
    /\ units' = [units EXCEPT ![i] =
                    IF @.left > 0 THEN Unit(@.left - 1, @.fails, "running")
                    ELSE Unit(0, @.fails, IF @.fails THEN "raised" ELSE "returned")]
    /\ UNCHANGED <<future_to_i, pool_call, owner_pc, owner_error, interrupts>>
    /\ UNCHANGED not_pool_vars

\* The owner takes the result of a future that is done: a result is passed
\* on, and the with block ends when it was the last; an exception is raised
\* inside the with block, as FutureException by run_in_thread_pool, unless
\* raise_on_exception is false.
TakeResult(i) ==
    /\ owner_pc = "waiting"
    /\ i \in future_to_i
    /\ units[i].state # "running"
    /\ future_to_i' = future_to_i \ {i}
    /\ IF units[i].state = "raised" /\ pool_call.raise_on_exception
       THEN /\ owner_pc' = "joining"
            /\ owner_error' = IF pool_call.kind = "pool" THEN "FutureException"
                              ELSE "Exception"
       ELSE /\ owner_pc' = IF future_to_i \ {i} = {} THEN "returned" ELSE "waiting"
            /\ UNCHANGED owner_error
    /\ UNCHANGED <<units, pool_call, interrupts>>
    /\ UNCHANGED not_pool_vars

\* The exit of the with block where shutdown does not wait for the units.
Join_NoWait ==
    /\ owner_pc = "joining"
    /\ owner_pc' = "raised"
    /\ UNCHANGED <<units, future_to_i, pool_call, owner_error, interrupts>>
    /\ UNCHANGED not_pool_vars

\* The exit of the with block of the ThreadPoolExecutor with an exception:
\* shutdown(wait=True) joins every worker thread, then the exception leaves
\* the call.
Join ==
    /\ owner_pc = "joining"
    /\ ~Running
    /\ owner_pc' = "raised"
    /\ UNCHANGED <<units, future_to_i, pool_call, owner_error, interrupts>>
    /\ UNCHANGED not_pool_vars

\* A KeyboardInterrupt in the main thread: while it waits for results, it is
\* raised inside the with block; while shutdown joins the worker threads, it
\* leaves the with block and the call.
Interrupt ==
    /\ owner_pc \in {"waiting", "joining"}
    /\ owner_pc' = IF owner_pc = "waiting" THEN "joining" ELSE "raised"
    /\ owner_error' = "KeyboardInterrupt"
    /\ interrupts' = interrupts + 1
    /\ UNCHANGED <<units, future_to_i, pool_call>>
    /\ UNCHANGED not_pool_vars

NextPool ==
    \/ \E works \in Works : \E raise_on_exception \in BOOLEAN :
           RunInThreadPool(works, raise_on_exception)
    \/ \E work \in [left : 0..MaxWork, fails : BOOLEAN] :
           \E raise_on_exception \in BOOLEAN : Background(work, raise_on_exception)
    \/ \E i \in DOMAIN units : UnitStep(i)
    \/ \E i \in DOMAIN units : TakeResult(i)
    \/ Join
    \/ Interrupt

SpecPool == InitGraph /\ [][NextPool]_vars

\* ---------------------------------------------------------------------------
\* Claims about the thread pool.
\* ---------------------------------------------------------------------------

\* The owner of the pool has seen a unit raise.
FailureObserved == owner_error \in {"FutureException", "Exception"}

\* C23: when a unit of run_in_thread_pool raises, the error is raised to the
\* calling task and the unfinished units are halted: once the owner of the
\* pool has observed the failure, no unit takes a further step of its work.
C23_OthersHalted ==
    [][FailureObserved =>
           \A i \in DOMAIN units : units'[i].left = units[i].left]_vars

\* Task.run returns its result to the scheduler: the call that owns the pool
\* has returned or raised into the task function.
TaskReturns == owner_pc \in {"returned", "raised"}

\* C24: when Task.run returns its result to the scheduler, normally, by error
\* or by interrupt, no unit or background function started by the task is
\* still running.
C24_NoUnitOutlivesTask ==
    TaskReturns => ~Running

\* C24, amended: when Task.run returns without a KeyboardInterrupt, normally
\* or by error, no unit or background function started by the task is still
\* running; one is still running only if a KeyboardInterrupt ended the wait
\* of the pool for its units, and then the interrupt is what Task.run returns,
\* on which the scheduler runs no other task.
C24_NoUnitOutlivesTaskButByInterrupt ==
    /\ TaskReturns /\ interrupts = 0 => ~Running
    /\ TaskReturns /\ Running => owner_error = "KeyboardInterrupt"

\* A pool of two units, one of which failed, has let the other finish its
\* work before the error left the call.
C24_Witness ==
    /\ owner_pc = "raised"
    /\ owner_error = "FutureException"
    /\ Len(units) = 2
    /\ \E i \in DOMAIN units : units[i].state = "returned" /\ i \in future_to_i

\* ------------------------------------------------------- prepare_build.py
\* The number of packages that are declared and selected for the build.
MaxSelected == 1

\* "game/"
GameDirectory == <<"g", "a", "m", "e", "/">>

\* The extension each packager type is registered with.
extension(format) ==
    CASE format \in {"zip", "app-zip", "bare-zip"} -> <<".", "z", "i", "p">>
      [] format \in {"tar.bz2", "bare-tar.bz2"} ->
             <<".", "t", "a", "r", ".", "b", "z", "2">>
      [] format = "directory" -> <<>>
      [] format = "app-directory" -> <<"-", "a", "p", "p">>
      [] format = "dmg" -> <<"-", "d", "m", "g">>
      [] format = "app-dmg" -> <<"-", "a", "p", "p", "-", "d", "m", "g">>

\* The path init_archiver gives the archiver: context.temp_path("archives",
\* filename) with the extension of "rpa".
init_archiver(filename) ==
    [parent |-> "archives", name |-> filename \o <<".", "r", "p", "a">>]

\* The path init_packager gives the packager: outfile with the extension of
\* the format.
init_packager(format, outfile) ==
    [parent |-> outfile.parent, name |-> outfile.name \o extension(format)]

\* init_package returns a packager: DMGPackager returns None without a
\* mac_identity.
produced(format, info) ==
    format \in {"dmg", "app-dmg"} => info.mac_identity # None

\* FileList.filter_none
filter_none(fs) == SelectSeq(fs, LAMBDA f : f.path # None)

\* classifier_file_lists[name]
list_of(lists, name) == lists[IndexOf(lists, name)].files

\* create_archivers: the loop over the archives that are left.
RECURSIVE create_archivers(_, _)
create_archivers(lists, declared) ==
    IF declared = <<>> THEN [raised |-> FALSE, archivers |-> <<>>]
    ELSE LET a == Head(declared)
             moved == reprefix(list_of(lists, a.name), GameDirectory, <<>>)
             file_list ==
                 filter_none(add_missing_directories(filter_empty(moved.files)))
             rest == create_archivers(lists, Tail(declared))
         IN IF moved.raised THEN [raised |-> TRUE, archivers |-> <<>>]
            ELSE IF file_list = <<>> THEN rest
            ELSE [rest EXCEPT !.archivers =
                     <<[name |-> a.name, filename |-> init_archiver(a.filename),
                        file_list |-> file_list, build_request |-> FALSE]>> \o @]

\* The first loop of the body of create_packagers_and_file_lists: what it
\* leaves of the classifier file lists ...
finished_lists(lists, names) ==
    [i \in DOMAIN lists |->
        IF lists[i].name \in Range(names)
        THEN [lists[i] EXCEPT !.files = add_missing_directories(filter_empty(@))]
        ELSE lists[i]]

\* ... and the dict file_lists it makes of the copies of those that are not
\* empty.
RECURSIVE package_lists(_, _)
package_lists(lists, names) ==
    IF names = <<>> THEN <<>>
    ELSE LET fl == list_of(lists, Head(names))
         IN (IF fl = <<>> THEN <<>>
             ELSE <<[name |-> Head(names), files |-> fl]>>)
                \o package_lists(lists, Tail(names))

\* add_list: the first file list of the archive that the package names, None
\* if there is none.
add_list(a, p) ==
    LET named == {i \in DOMAIN a.file_lists : a.file_lists[i] \in Range(p.file_lists)}
    IN IF named = {} THEN None
       ELSE a.file_lists[CHOOSE i \in named : \A j \in named : i <= j]

\* The files of an archiver as a package that ignores archives adds them.
under_game(fs) == [i \in DOMAIN fs |-> [fs[i] EXCEPT !.name = GameDirectory \o @]]

\* The second loop of the body over the archives that are left; s holds
\* file_lists, the archivers and whether the loop raised.
RECURSIVE add_archives(_, _, _)
add_archives(s, p, declared) ==
    IF declared = <<>> \/ s.raised THEN s
    ELSE LET a == Head(declared)
             k == IndexOf(s.archivers, a.name)
             to == add_list(a, p)
             at == IndexOf(s.file_lists, to)
         IN IF k = 0 \/ to = None THEN add_archives(s, p, Tail(declared))
            ELSE IF at = 0 THEN [s EXCEPT !.raised = TRUE]
            ELSE LET r == IF p.ignore_archives
                          THEN AddAll(s.file_lists[at].files,
                                      under_game(s.archivers[k].file_list))
                          ELSE add(s.file_lists[at].files,
                                   File(GameDirectory \o s.archivers[k].filename.name,
                                        "archives", FALSE, FALSE))
                 IN IF r.raised THEN [s EXCEPT !.raised = TRUE]
                    ELSE add_archives(
                             [s EXCEPT !.file_lists[at].files = r.files,
                                       !.archivers[k].build_request =
                                           @ \/ ~p.ignore_archives],
                             p, Tail(declared))

\* The body of the two for loops of create_packagers_and_file_lists for one
\* package and one of its formats; st holds the classifier file lists, the
\* archivers, result and whether the task raised.
packager_of(st, info, p, format) ==
    LET lists == finished_lists(st.lists, p.file_lists)
        s == add_archives([file_lists |-> package_lists(lists, p.file_lists),
                           archivers |-> st.archivers, raised |-> FALSE],
                          p, info.archives)
        outfile == [parent |-> "output_dir",
                    name |-> info.directory_name \o <<"-">> \o p.name]
        merged == merge([i \in DOMAIN s.file_lists |-> s.file_lists[i].files])
        done == [st EXCEPT !.lists = lists, !.archivers = s.archivers]
    IN IF s.raised THEN [done EXCEPT !.raised = TRUE]
       ELSE IF ~produced(format, info) THEN done
       ELSE IF merged.raised THEN [done EXCEPT !.raised = TRUE]
       ELSE [done EXCEPT !.result =
                DictSet(@, [name |-> <<p.name, format>>,
                            outpath |-> init_packager(format, outfile),
                            file_list |-> merged.files])]

\* The (package, format) pairs in the order of the two for loops.
RECURSIVE format_pairs(_)
format_pairs(selected) ==
    IF selected = <<>> THEN <<>>
    ELSE [i \in DOMAIN Head(selected).formats |->
             [package |-> Head(selected), format |-> Head(selected).formats[i]]]
            \o format_pairs(Tail(selected))

\* create_packagers_and_file_lists over the pairs that are left.
RECURSIVE create_packagers_and_file_lists(_, _, _)
create_packagers_and_file_lists(st, info, pairs) ==
    IF pairs = <<>> \/ st.raised THEN st
    ELSE create_packagers_and_file_lists(
             packager_of(st, info, Head(pairs).package, Head(pairs).format),
             info, Tail(pairs))

\* The names of the packages: "p", "q", "r".
SelectedNames == <<<<"p">>, <<"q">>, <<"r">>>>

\* The formats of a package: one, two that are registered with one
\* extension, and one whose packager needs a mac_identity.
FormatLists == {<<"zip">>, <<"zip", "bare-zip">>, <<"dmg", "directory">>}

\* The n packages of a build, all of them selected.
SelectedPackages(n) ==
    {[i \in 1..n |-> [name |-> SelectedNames[i], formats |-> v[i].formats,
                      file_lists |-> v[i].file_lists,
                      ignore_archives |-> v[i].ignore_archives]] :
        v \in [1..n -> [formats : FormatLists, file_lists : PackageLists,
                        ignore_archives : BOOLEAN]]}

\* The archives of a build: none, or the archive "archive" that is written
\* to the file "a".
DeclaredArchives ==
    {<<>>} \cup {<<[name |-> "archive", filename |-> <<"a">>, file_lists |-> l]>> :
                    l \in ArchiveLists}

\* The builds: the file lists of the archives are file lists of the packages.
BuildInfos ==
    {b \in [packages : UNION {SelectedPackages(n) : n \in 1..MaxSelected},
            archives : DeclaredArchives, mac_identity : {None, "identity"},
            directory_name : {<<"g">>}] :
        \A i \in DOMAIN b.archives :
            Range(b.archives[i].file_lists) \subseteq
                UNION {Range(b.packages[j].file_lists) : j \in DOMAIN b.packages}}

\* What the classify tasks leave in a file list: nothing, or one file of the
\* project, in the game directory or outside of it.
ClassifiedFiles(name) ==
    CASE name = "all" ->
             {<<>>, <<File(GameDirectory \o <<"b">>, "path", FALSE, FALSE)>>}
      [] name = "mac" -> {<<>>, <<File(<<"b">>, "path", FALSE, FALSE)>>}
      [] name = "archive" ->
             {<<>>, <<File(GameDirectory \o <<"a">>, "path", FALSE, FALSE)>>,
              <<File(<<"a">>, "path", FALSE, FALSE)>>}

\* BuildInfo.file_lists in the order of the dict classifier_file_lists.
file_lists_of(info) ==
    SelectSeq(<<"all", "mac", "archive">>,
              LAMBDA n : \/ \E i \in DOMAIN info.packages :
                                n \in Range(info.packages[i].file_lists)
                         \/ \E i \in DOMAIN info.archives :
                                n = info.archives[i].name)

\* The dicts classifier_file_lists of a build.
Classifications(info) ==
    {[i \in DOMAIN file_lists_of(info) |->
         [name |-> file_lists_of(info)[i], files |-> c[file_lists_of(info)[i]]]] :
        c \in [{"all", "mac", "archive"} ->
                  UNION {ClassifiedFiles(n) : n \in {"all", "mac", "archive"}}]}

\* The classify tasks ran: the build and its classifier file lists are known.
Classified ==
    /\ prepare_pc = "none"
    /\ \E info \in BuildInfos : \E lists \in Classifications(info) :
           /\ \A i \in DOMAIN lists :
                  lists[i].files \in ClassifiedFiles(lists[i].name)
           /\ context' = [context EXCEPT !.build_info = info,
                                         !.classifier_file_lists = lists]
    /\ prepare_pc' = "classified"
    /\ UNCHANGED not_prepare_vars

\* The task create_archivers
CreateArchivers ==
    /\ prepare_pc = "classified"
    /\ LET r == create_archivers(context.classifier_file_lists,
                                 context.build_info.archives)
       IN IF r.raised
          THEN /\ prepare_pc' = "archivers raised"
               /\ UNCHANGED context
          ELSE /\ prepare_pc' = "archived"
               /\ context' = [context EXCEPT !.archivers = r.archivers]
    /\ UNCHANGED not_prepare_vars

\* The task create_packagers_and_file_lists
CreatePackagersAndFileLists ==
    /\ prepare_pc = "archived"
    /\ LET st == create_packagers_and_file_lists(
                     [lists |-> context.classifier_file_lists,
                      archivers |-> context.archivers,
                      result |-> <<>>, raised |-> FALSE],
                     context.build_info,
                     format_pairs(context.build_info.packages))
       IN /\ prepare_pc' = IF st.raised THEN "packagers raised" ELSE "prepared"
          /\ context' = [context EXCEPT
                            !.classifier_file_lists = st.lists,
                            !.archivers = st.archivers,
                            !.packagers = IF st.raised THEN @ ELSE st.result]
    /\ UNCHANGED not_prepare_vars

NextPrepare ==
    \/ Classified
    \/ CreateArchivers
    \/ CreatePackagersAndFileLists

SpecPrepare == InitGraph /\ [][NextPrepare]_vars

\* ------------------------------------------------------------ claims C25, C30
\* The units of work write_archives hands to the thread pool: the archivers
\* some package requested.
RequestedArchivers == SelectSeq(context.archivers, LAMBDA a : a.build_request)

\* C25: the units of work that write_packages and write_archives run
\* concurrently write to pairwise disjoint targets: no two packagers that
\* are written share their key in context.packagers or their output path,
\* and no two archivers that are written share their name or their file.
C25_DisjointTargets ==
    prepare_pc = "prepared" =>
        /\ \A i, j \in DOMAIN context.packagers :
               i # j => /\ context.packagers[i].name # context.packagers[j].name
                        /\ context.packagers[i].outpath # context.packagers[j].outpath
        /\ \A i, j \in DOMAIN RequestedArchivers :
               i # j => /\ RequestedArchivers[i].name # RequestedArchivers[j].name
                        /\ RequestedArchivers[i].filename # RequestedArchivers[j].filename

\* The package of a packager.
package_of(pk) ==
    LET ps == context.build_info.packages
    IN ps[CHOOSE i \in DOMAIN ps : ps[i].name = pk.name[1]]

\* How often a name is the name of an entry of a file list.
Occurrences(fs, name) == Cardinality({i \in DOMAIN fs : fs[i].name = name})

\* What the packager of a package that names a file list of an archive with
\* an archiver holds of it: game/<archive file name> once, the archiver being
\* requested, or for a package that ignores archives every file of the
\* archive under the name it was classified with.
HoldsArchive(pk, a) ==
    LET p == package_of(pk)
        k == IndexOf(context.archivers, a.name)
    IN k # 0 /\ add_list(a, p) # None =>
           IF p.ignore_archives
           THEN Names(list_of(context.classifier_file_lists, a.name))
                    \subseteq Names(pk.file_list)
           ELSE /\ Occurrences(pk.file_list,
                               GameDirectory \o context.archivers[k].filename.name) = 1
                /\ context.archivers[k].build_request

\* C30: create_packagers_and_file_lists succeeds for every selected package,
\* and each packager it produces holds the archives of its package: the
\* entry game/<archive file name> exactly once with the archiver marked
\* build_request, or, when the package ignores archives, every file of the
\* archive under the name it was classified with.
C30_PackagersHoldArchives ==
    /\ prepare_pc # "packagers raised"
    /\ prepare_pc = "prepared" =>
           \A k \in DOMAIN context.packagers :
               \A i \in DOMAIN context.build_info.archives :
                   HoldsArchive(context.packagers[k], context.build_info.archives[i])

\* What is left of C30 beside the success of the task.
PackagersHoldArchives ==
    prepare_pc = "prepared" =>
        \A k \in DOMAIN context.packagers :
            \A i \in DOMAIN context.build_info.archives :
                HoldsArchive(context.packagers[k], context.build_info.archives[i])

\* ------------------------------------------------------ the task modules
\* @task(description) of kind "all", with its requires and dependencies
task(name, requires, dependencies) ==
    [name |-> name, kind |-> PlatformKind(KNOWN_PLATFORMS),
     requires |-> requires, dependencies |-> dependencies]

\* @task(description, kind=...) with the platforms of the kind
platform_task(name, platforms, requires, dependencies) ==
    [name |-> name, kind |-> PlatformKind(platforms),
     requires |-> requires, dependencies |-> dependencies]

\* The tasks of tasks/system.py in the order of their definition.
system_tasks ==
    <<task("check_properties", <<>>, <<>>),
      task("renpy_to_syspath", <<>>, <<>>),
      task("update_dump", <<>>, <<>>),
      task("check_package", <<>>, <<>>),
      task("init_build_platforms", <<>>, <<>>),
      task("init_classifier_file_lists", <<>>, <<>>)>>

\* tasks/classify.py
classify_tasks ==
    <<task("compile_renpy", <<>>, <<>>),
      task("scan_renpy", <<>>, <<>>),
      task("scan_project", <<>>, <<>>),
      platform_task("add_linux_files", {"linux"}, <<>>, <<>>),
      platform_task("add_mac_files", {"mac"}, <<>>, <<>>),
      platform_task("add_windows_files", {"win"}, <<>>, <<>>),
      task("add_renpy_game_files", <<>>, <<>>),
      platform_task("mark_executable", {"linux", "mac"}, <<>>, <<>>),
      task("rename", <<>>, <<>>),
      task("move_sdk_fonts", <<>>, <<>>)>>

\* tasks/prepare_build.py
prepare_tasks ==
    <<task("create_archivers", <<>>, <<>>),
      task("create_packagers_and_file_lists", <<>>, <<>>),
      task("prepend_directory", <<>>, <<>>),
      platform_task("transform_and_sign_app", {"mac"}, <<>>, <<>>),
      platform_task("workaround_mac_notarization", {"mac"}, <<>>, <<>>)>>

\* tasks/build.py
build_tasks ==
    <<task("sort_and_clear_empty", <<>>, <<>>),
      task("write_archives", <<>>, <<>>),
      task("write_packages", <<>>, <<>>),
      task("open_output_dir", <<>>, <<>>)>>

\* rapt/tasks.py
android_tasks ==
    <<platform_task("init_android_config", {"android"},
                    <<"init_build_platforms">>, <<"init_classifier_file_lists">>),
      platform_task("copy_project", {"android"},
                    <<"init_build_platforms">>, <<"init_allow_and_block_lists">>),
      platform_task("check_sdk", {"android"},
                    <<"copy_project">>, <<"init_classifier_file_lists">>),
      platform_task("init_allow_and_block_lists", {"android"},
                    <<"create_packagers_and_file_lists">>, <<"prepend_directory">>),
      platform_task("eliminate_pycache", {"android"},
                    <<"create_packagers_and_file_lists">>, <<"prepend_directory">>),
      platform_task("split_renpy", {"android"},
                    <<"eliminate_pycache">>, <<"sort_and_clear_empty">>),
      platform_task("copy_libs", {"android"},
                    <<"split_renpy">>, <<"sort_and_clear_empty">>),
      platform_task("create_icons", {"android"},
                    <<"split_renpy">>, <<"sort_and_clear_empty">>),
      platform_task("render_generated", {"android"},
                    <<"write_packages">>, <<"open_output_dir">>)>>

\* web/tasks.py
web_tasks ==
    <<platform_task("update_web_static_files", {"web"},
                    <<"init_build_platforms">>, <<"init_classifier_file_lists">>),
      platform_task("init_web_rules", {"web"},
                    <<"init_build_platforms">>, <<"init_classifier_file_lists">>),
      platform_task("classify_progressive_download", {"web"},
                    <<"create_packagers_and_file_lists">>, <<"prepend_directory">>),
      platform_task("write_progressive_download", {"web"},
                    <<"sort_and_clear_empty">>, <<"write_packages">>),
      platform_task("generate_pwa_icons", {"web"},
                    <<"write_progressive_download">>, <<"write_archives">>),
      platform_task("prepare_pwa_files", {"web"},
                    <<"write_progressive_download">>, <<"write_archives">>),
      platform_task("add_core_files", {"web"},
                    <<"write_progressive_download">>, <<"write_archives">>),
      platform_task("zip_game", {"web"},
                    <<"write_progressive_download">>, <<"write_packages">>)>>

\* _all_tasks: the tasks the decorators of a module registered.
tasks_of(module) ==
    CASE module = "system" -> system_tasks
      [] module = "classify" -> classify_tasks
      [] module = "prepare" -> prepare_tasks
      [] module = "build" -> build_tasks
      [] module = "android" -> android_tasks
      [] module = "web" -> web_tasks

\* The modules of the built-in pipeline in the order they are loaded in, and
\* the modules of the extensions.
BuiltinModules == <<"system", "classify", "prepare", "build">>

ExtensionModules == {"android", "web"}

\* The tasks of the loaded modules in the order of the dict Runner.all_tasks.
registered(modules) == Chain([i \in DOMAIN modules |-> tasks_of(modules[i])])

\* The place of a task in Runner.all_tasks, 0 if no task has the name.
task_index(ts, name) ==
    IF \E i \in DOMAIN ts : ts[i].name = name
    THEN CHOOSE i \in DOMAIN ts : ts[i].name = name
    ELSE 0

\* Runner.all_tasks after get_tasks_from was called for the modules, each
\* task named by its place.
all_tasks_of(modules) ==
    LET ts == registered(modules)
    IN [i \in DOMAIN ts |->
           [kind |-> ts[i].kind,
            requires |-> [j \in DOMAIN ts[i].requires |->
                             task_index(ts, ts[i].requires[j])],
            dependencies |-> [j \in DOMAIN ts[i].dependencies |->
                                 task_index(ts, ts[i].dependencies[j])]]]

\* The while loop of compute when set.pop() gives the first task of the
\* workset: the keys reverse is left with.
RECURSIVE PeelFirst(_)
PeelFirst(s) ==
    IF s.workset = {} THEN s.rkeys
    ELSE PeelFirst(PeelStep(s, CHOOSE name \in s.workset :
                                   \A other \in s.workset : name <= other))

\* Runner.compute for the tasks of the modules, with that set.pop().
compute_modules(tasks) ==
    LET g == BuildGraph(tasks)
        left == PeelFirst([forward |-> g.forward, reverse |-> g.reverse,
                           rkeys |-> ReverseKeys(g),
                           workset |-> {k \in 1..Len(tasks) : k \notin ForwardKeys(g)}])
    IN IF g.unknown_depends # {}
       THEN [error |-> "unknown", names |-> g.unknown_depends, order |-> <<>>]
       ELSE IF left # {}
       THEN [error |-> "loop", names |-> left, order |-> <<>>]
       ELSE [error |-> "none", names |-> {}, order |-> TasksOrder(tasks, g)]

\* Runner.get_tasks_from for the next module of the pipeline: the built-in
\* modules in their order, then the extensions in any order.
GetTasksFrom(module) ==
    /\ pc = "register"
    /\ all_tasks = all_tasks_of(loaded)
    /\ IF Len(loaded) < Len(BuiltinModules)
       THEN module = BuiltinModules[Len(loaded) + 1]
       ELSE module \in ExtensionModules \ Range(loaded)
    /\ loaded' = Append(loaded, module)
    /\ all_tasks' = all_tasks_of(loaded')
    /\ UNCHANGED <<build_platforms, pc, error, error_names, tasks_queue,
                   next_task, result, log, function_outcome, final_message>>
    /\ UNCHANGED <<file_vars, match_vars, classify_vars, build_vars, write_vars,
                   pool_vars, prepare_vars>>

\* Runner.run up to the first iteration of its for loop, for the pipeline.
RunComputeModules ==
    /\ pc = "register"
    /\ Len(loaded) >= Len(BuiltinModules)
    /\ LET c == compute_modules(all_tasks)
       IN /\ error' = c.error
          /\ error_names' = c.names
          /\ tasks_queue' = c.order
          /\ pc' = IF c.error # "none" THEN "raised" ELSE "loop"
    /\ UNCHANGED <<all_tasks, build_platforms, next_task, result, log,
                   function_outcome, final_message>>
    /\ UNCHANGED not_sched_vars

NextPipeline ==
    \/ \E module \in Range(BuiltinModules) \cup ExtensionModules : GetTasksFrom(module)
    \/ RunComputeModules
    \/ RunTask(Returns("object", 1))

SpecPipeline == Init /\ [][NextPipeline]_vars

\* The place in the computed order of the task the loaded modules registered
\* under the name.
place_in_queue(name) ==
    LET t == task_index(registered(loaded), name)
    IN CHOOSE i \in DOMAIN tasks_queue : tasks_queue[i] = t

runs_before(first, second) == place_in_queue(first) < place_in_queue(second)

\* C26: for the built-in pipeline loaded in the order system, classify,
\* prepare, build, with or without the android and web modules after them in
\* either order, compute raises nothing and its order holds every registered
\* task once, runs create_archivers before create_packagers_and_file_lists,
\* sort_and_clear_empty before write_archives, write_archives before
\* write_packages, and open_output_dir after every other task.
C26_PipelineOrder ==
    (Len(loaded) >= Len(BuiltinModules) /\ pc # "register") =>
        /\ error \notin {"unknown", "loop"}
        /\ Len(tasks_queue) = Len(all_tasks)
        /\ Range(tasks_queue) = DOMAIN all_tasks
        /\ runs_before("create_archivers", "create_packagers_and_file_lists")
        /\ runs_before("sort_and_clear_empty", "write_archives")
        /\ runs_before("write_archives", "write_packages")
        /\ \A i \in DOMAIN registered(loaded) :
               registered(loaded)[i].name # "open_output_dir" =>
                   runs_before(registered(loaded)[i].name, "open_output_dir")

\* The order was computed for the pipeline with both extension modules, web
\* loaded before android, and the tasks android and web anchor between the
\* built-in tasks are in it.
C26_Witness ==
    /\ loaded = BuiltinModules \o <<"web", "android">>
    /\ pc # "register"
    /\ Len(tasks_queue) = PipelineTasks
    /\ runs_before("write_progressive_download", "write_packages")
    /\ runs_before("render_generated", "open_output_dir")

\* ================================================== every FileList method
\* FileList.discard: del self[value.name] raises KeyError for a name that is
\* no key.
discard(fs, value) ==
    IF IndexOf(fs, value.name) = 0 THEN Outcome(TRUE, fs)
    ELSE Outcome(FALSE, SelectSeq(fs, LAMBDA f : f.name # value.name))

\* FileList.sort
sort(fs) == DictOf(sorted(fs))

\* FileList.prepend_directory: File(directory, None, True, False) checks the
\* name of the directory before any file is renamed.
prepend_directory(fs, directory) ==
    IF ~check_file_name(directory) THEN Outcome(TRUE, fs)
    ELSE Outcome(FALSE,
                 DictOf(<<File(directory, None, TRUE, FALSE)>> \o
                        [i \in DOMAIN fs |->
                            [fs[i] EXCEPT !.name = directory \o <<"/">> \o fs[i].name]]))

\* FileList.split_by_prefix: the two new lists.
split_by_prefix(fs, prefix) ==
    [yes |-> FileList(SelectSeq(fs, LAMBDA f : startswith(f.name, prefix))).files,
     no |-> FileList(SelectSeq(fs, LAMBDA f : ~startswith(f.name, prefix))).files]

\* The Files the methods are called with: a file with a path and a
\* directory without one, named "ab", "a/b" or "b/b".
MethodFiles ==
    {File(n, "path", FALSE, FALSE) : n \in {<<"a", "b">>, <<"a", "/", "b">>, <<"b", "/", "b">>}}
    \cup {File(n, None, TRUE, FALSE) : n \in {<<"a", "/", "b">>, <<"b", "/", "b">>}}

\* The directories that are prepended: "b" and "b/".
Directories == {<<"b">>, <<"b", "/">>}

\* file_list.discard(value)
Discard(value) ==
    /\ Building
    /\ LET r == discard(files, value)
       IN /\ files' = r.files
          /\ file_call' = Call("discard", <<value>>, r.raised)
    /\ files_before' = files
    /\ file_keys' = KeysOf(files')
    /\ UNCHANGED not_file_vars

\* file_list.sort()
Sort ==
    /\ Building
    /\ files' = sort(files)
    /\ files_before' = files
    /\ file_keys' = KeysOf(files')
    /\ file_call' = Call("sort", <<>>, FALSE)
    /\ UNCHANGED not_file_vars

\* file_list.filter_none()
FilterNone ==
    /\ Building
    /\ files' = filter_none(files)
    /\ files_before' = files
    /\ file_keys' = KeysOf(files')
    /\ file_call' = Call("filter_none", <<>>, FALSE)
    /\ UNCHANGED not_file_vars

\* file_list.prepend_directory(directory), for a list no name of which is
\* longer than MaxNameLen.
PrependDirectory(directory) ==
    /\ Moving
    /\ \A n \in Names(files) : Len(n) <= MaxNameLen
    /\ LET r == prepend_directory(files, directory)
       IN /\ files' = r.files
          /\ file_call' = Call("prepend_directory", <<directory>>, r.raised)
    /\ files_before' = files
    /\ file_keys' = KeysOf(files')
    /\ UNCHANGED not_file_vars

\* yes, no = file_list.split_by_prefix(prefix), and file_list = yes or
\* file_list = no.
SplitByPrefix(prefix, which) ==
    /\ Building
    /\ files' = split_by_prefix(files, prefix)[which]
    /\ files_before' = files
    /\ file_keys' = KeysOf(files')
    /\ file_call' = Call("split_by_prefix", <<prefix>>, FALSE)
    /\ UNCHANGED not_file_vars

NextMethods ==
    \/ \E value \in MethodFiles : Add(value)
    \/ \E value \in MethodFiles : Merge(<<value>>)
    \/ \E value \in MethodFiles : Discard(value)
    \/ Sort
    \/ FilterNone
    \/ FilterEmpty
    \/ AddMissingDirectories
    \/ \E old \in Prefixes : \E new \in Prefixes \ {old} : Reprefix(old, new)
    \/ \E directory \in Directories : PrependDirectory(directory)
    \/ \E prefix \in Prefixes : \E which \in {"yes", "no"} : SplitByPrefix(prefix, which)

SpecMethods == InitGraph /\ [][NextMethods]_vars

\* C28 as stated: after any sequence of FileList calls, the calls that raise
\* included, every key of the file list is the name of the File stored
\* under it and every name is valid (not empty, no slash at either end, no
\* "." or ".." segment).
C28_KeysAreValidNames ==
    /\ Len(file_keys) = Len(files)
    /\ \A i \in DOMAIN files :
           file_keys[i] = files[i].name /\ check_file_name(files[i].name)

\* The same for the calls that return.
KeysAreValidNames ==
    ~file_call.raised => C28_KeysAreValidNames

====
